---- MODULE Spec2Model ----
(***************************************************************************)
(* DeployGo: the detached-execution and logging pipeline of the CLI.       *)
(*                                                                         *)
(* A `deploy` invocation (handleDeploy, the foreground process) validates  *)
(* its three paths, writes a task file and starts a copy of itself as      *)
(* `internal-run` (handleInternalRun, the background process).  The        *)
(* background process loads the task file, runs the script through         *)
(* ExecuteDeployment with two readAndLogOutput goroutines, writes the      *)
(* outcome marker (WriteLog), rotates the log (RotateLog) and removes the  *)
(* task file.                                                              *)
(*                                                                         *)
(* The operating system is the environment: the result of a system call    *)
(* that the code tests is an input of the action that makes the call.      *)
(***************************************************************************)
EXTENDS Integers, Sequences, FiniteSets, TLC

\* ------------------------------------------------------------------ bounds

\* Lines a script writes to one stream at most.
MaxLines == 2
\* Writes of stream lines to the log that fail, per task, at most.
MaxWriteFail == 1
\* The clock (seconds) runs from 0 to MaxClock.
MaxClock == 1
\* Lines the script writes to its standard output when two tasks run.
MaxLinesTwo == 1

\* ------------------------------------------------------- values and helpers

Tasks == {1, 2}

Streams == {"STDOUT", "STDERR"}

\* Paths are sequences of characters.
EmptyPath == << >>
ProjectDir == <<"/", "p">>
ScriptFile == <<"/", "s">>
LogDirL == <<"/", "l">>
LogDirM == <<"/", "m">>
\* A log directory named by a path relative to the working directory.
LogDirRel == <<"l">>
LogDirs == {LogDirL, LogDirM, LogDirRel}

ProjectArgs == {EmptyPath, <<"p">>, ProjectDir}
ScriptArgs == {EmptyPath, <<"s">>, ScriptFile}
LogArgs == {EmptyPath, <<"l">>, LogDirL}

\* filepath.IsAbs on a Unix system: the path starts with a slash.
IsAbs(path) == Len(path) > 0 /\ path[1] = "/"

\* os.IsNotExist: true of ENOENT only.
IsNotExist(err) == err = "ENOENT"

NoIno == 0

Entry(tag, t, n, why) == [tag |-> tag, task |-> t, n |-> n, why |-> why]

\* A log line left by a deployment that ran before the modelled ones.
OldEntry == Entry("OLD", 0, 0, "")
\* Bytes of a sparse region: a write beyond the end of a file.
Hole == Entry("HOLE", 0, 0, "")

VARIABLES
    args,        \* args[t]: the flags --project, --deployScript, --logPath of task t
    fsExists,    \* the paths that exist in the file system
    fsWritable,  \* the log directories in which the user may create and rename files
    fgPc,        \* fgPc[t]: position of the `deploy` process of task t
    fgExit,      \* fgExit[t]: its exit status, -1 while it runs
    fgMsg,       \* fgMsg[t]: the messages it printed, each with the task id it contains (or 0)
    fgEnv,       \* fgEnv[t]: the results the system calls of handleDeploy returned
    tmp,         \* tmp[t]: the temporary task file of task t
    tmpLog,      \* tmpLog[t]: creations and removals of that file, in order
    bgPc,        \* bgPc[t]: position of the `internal-run` process of task t
    bgMsg,       \* bgMsg[t]: what that process printed to its standard error
    task,        \* task[t]: the DeploymentTask that process loaded
    execErr,     \* execErr[t]: what ExecuteDeployment returned
    taskFile,    \* taskFile[t]: the task file named on its command line (0: none)
    bgEnv,       \* bgEnv[t]: what os.Stat, os.Chmod and RotateLog returned to it
    handle,      \* handle[t]: logFile of ExecuteDeployment: inode and offset
    logIno,      \* logIno[t]: the inode ExecuteDeployment opened as deployment.log
    cmd,         \* cmd[t]: the script process
    pipe,        \* pipe[t][s]: the pipe of stream s, parent's read end
    rd,          \* rd[t][s]: the readAndLogOutput goroutine of stream s
    inodes,      \* inodes[i]: content of file i, a sequence of log entries
    disk,        \* disk[i]: what of file i has reached stable storage
    scriptMode,  \* the permission bits of the deployment script
    dirs,        \* dirs[d]: the names in log directory d
    now,         \* the clock, in seconds
    watcher      \* the file watcher of the server: its position and the events waiting

fgVars == <<fgPc, fgExit, fgMsg, fgEnv>>
tmpVars == <<tmp, tmpLog>>
bgVars == <<bgPc, bgMsg, task, taskFile, bgEnv, execErr, handle, logIno>>
cmdVars == <<cmd, pipe, rd>>
fsVars == <<inodes, disk, dirs, scriptMode, now>>
\* What no step of the command-line program changes.
envVars == <<args, fsExists, fsWritable, watcher>>
vars == <<envVars, fgVars, tmpVars, bgVars, cmdVars, fsVars>>

\* ------------------------------------------------------------ DeploymentTask

DeploymentTask(project, script, logs, id) ==
    [ProjectPath |-> project, DeploymentScriptPath |-> script,
     LogPath |-> logs, TaskID |-> id]

NoTask == DeploymentTask(EmptyPath, EmptyPath, EmptyPath, 0)

\* A byte that is not valid UTF-8 (a file name may hold any byte but 0 and
\* "/"), and the character U+FFFD.
BadByte == "0xFF"
Replacement == "U+FFFD"

\* What json.Unmarshal gives back for the Go string str written by
\* json.Marshal: Marshal writes the replacement character for each byte that
\* is not valid UTF-8.
JsonString(str) == [i \in 1..Len(str) |-> IF str[i] = BadByte THEN Replacement ELSE str[i]]

\* json.Marshal of a DeploymentTask: the fields in declaration order.
Marshal(tk) ==
    << <<"ProjectPath", JsonString(tk.ProjectPath)>>,
       <<"DeploymentScriptPath", JsonString(tk.DeploymentScriptPath)>>,
       <<"LogPath", JsonString(tk.LogPath)>>,
       <<"TaskID", tk.TaskID>> >>

\* json.Unmarshal into a DeploymentTask: fails on a document that is cut short.
UnmarshalOK(data) == Len(data) = 4

Field(data, key) == (CHOOSE i \in 1..Len(data) : data[i][1] = key)

Unmarshal(data) ==
    DeploymentTask(data[Field(data, "ProjectPath")][2],
                   data[Field(data, "DeploymentScriptPath")][2],
                   data[Field(data, "LogPath")][2],
                   data[Field(data, "TaskID")][2])

\* -------------------------------------------------------------- ValidatePaths

\* What os.Stat may return for a path: nil or EACCES for one that exists,
\* ENOENT, ENOTDIR (a component of the prefix is a file) or EACCES (a
\* directory of the prefix may not be searched) for one that does not.
Stat(path) ==
    IF path \in fsExists THEN {"nil", "EACCES"} ELSE {"ENOENT", "ENOTDIR", "EACCES"}

\* (ValidatePaths without the check that the log path is absolute.)
ValidatePathsLogNotChecked(project, script, logs, st) ==
    IF ~IsAbs(project) THEN "project path must be absolute"
    ELSE IF IsNotExist(st.project) THEN "project path does not exist"
    ELSE IF ~IsAbs(script) THEN "deployment script path must be absolute"
    ELSE IF IsNotExist(st.script) THEN "deployment script path does not exist"
    ELSE IF IsNotExist(st.logs) THEN "log path does not exist"
    ELSE "nil"

\* st.project, st.script, st.logs: what os.Stat returns for each path.
ValidatePaths(project, script, logs, st) ==
    IF ~IsAbs(project) THEN "project path must be absolute"
    ELSE IF IsNotExist(st.project) THEN "project path does not exist"
    ELSE IF ~IsAbs(script) THEN "deployment script path must be absolute"
    ELSE IF IsNotExist(st.script) THEN "deployment script path does not exist"
    ELSE IF ~IsAbs(logs) THEN "log path must be absolute"
    ELSE IF IsNotExist(st.logs) THEN "log path does not exist"
    ELSE "nil"

StatResults(a) ==
    {st \in [project : {"nil", "EACCES", "ENOENT", "ENOTDIR"},
             script : {"nil", "EACCES", "ENOENT", "ENOTDIR"},
             logs : {"nil", "EACCES", "ENOENT", "ENOTDIR"}] :
        /\ st.project \in Stat(a.project)
        /\ st.script \in Stat(a.script)
        /\ st.logs \in Stat(a.logs)}

\* --------------------------------------------------------------- handleDeploy

\* os.Exit(1) after printing msg.
FgFail(t, msg) ==
    /\ fgPc' = [fgPc EXCEPT ![t] = "exited"]
    /\ fgExit' = [fgExit EXCEPT ![t] = 1]
    /\ fgMsg' = [fgMsg EXCEPT ![t] = Append(@, <<msg, 0>>)]

FgGoto(t, pc) ==
    /\ fgPc' = [fgPc EXCEPT ![t] = pc]
    /\ UNCHANGED <<fgExit, fgMsg>>

FgEnv(t, step, res) == fgEnv' = [fgEnv EXCEPT ![t][step] = res]

\* main.go 40-49: the flags are required, then ValidatePaths.
handleDeployValidate(t) ==
    /\ fgPc[t] = "validate"
    /\ LET a == args[t] IN
       IF a.project = EmptyPath \/ a.script = EmptyPath \/ a.logs = EmptyPath
       THEN /\ FgFail(t, "All flags are required")
            /\ FgEnv(t, "validate", "flags")
       ELSE \E st \in StatResults(a) :
              LET err == ValidatePaths(a.project, a.script, a.logs, st) IN
              /\ FgEnv(t, "validate", err)
              /\ IF err # "nil" THEN FgFail(t, err) ELSE FgGoto(t, "createtemp")
    /\ UNCHANGED <<envVars, tmpVars, bgVars, cmdVars, fsVars>>

\* (os.CreateTemp replaced by a fixed file name.)
TempNameFixed(t) == 1

\* main.go 61: the name os.CreateTemp("", "deploygo-task-*.json") gives the
\* file of invocation t: the file is created with O_EXCL, so it is a name no
\* other invocation's file has.
TempName(t) == t

\* main.go 52-65: the task is built and os.CreateTemp makes an empty file.
handleDeployCreateTemp(t) ==
    /\ fgPc[t] = "createtemp"
    /\ \E ok \in BOOLEAN :
         /\ FgEnv(t, "createtemp", IF ok THEN "nil" ELSE "error")
         /\ IF ok
            THEN /\ tmp' = [tmp EXCEPT ![TempName(t)] = [exists |-> TRUE, data |-> << >>]]
                 /\ tmpLog' = [tmpLog EXCEPT ![TempName(t)] = Append(@, "create:handleDeploy")]
                 /\ FgGoto(t, "write")
            ELSE /\ FgFail(t, "Failed to create temporary task file")
                 /\ UNCHANGED tmpVars
    /\ UNCHANGED <<envVars, bgVars, cmdVars, fsVars>>

\* (handleDeploy going on after a failed write of the task file.)
handleDeployWriteUnchecked(t) ==
    /\ fgPc[t] = "write"
    /\ LET data == Marshal(DeploymentTask(args[t].project, args[t].script, args[t].logs, t)) IN
       \E n \in {0, 2, Len(data)} :
         /\ FgEnv(t, "write", IF n = Len(data) THEN "nil" ELSE "error")
         /\ tmp' = [tmp EXCEPT ![TempName(t)].data = SubSeq(data, 1, n)]
         /\ FgGoto(t, "spawn")
    /\ UNCHANGED <<envVars, tmpLog, bgVars, cmdVars, fsVars>>

\* main.go 69-79: json.Marshal (which cannot fail for this struct of strings),
\* tmpFile.Write and tmpFile.Close.  A failed write leaves a part of the data.
handleDeployWrite(t) ==
    /\ fgPc[t] = "write"
    /\ LET data == Marshal(DeploymentTask(args[t].project, args[t].script, args[t].logs, t)) IN
       \E n \in {0, 2, Len(data)} :
         /\ FgEnv(t, "write", IF n = Len(data) THEN "nil" ELSE "error")
         /\ tmp' = [tmp EXCEPT ![TempName(t)].data = SubSeq(data, 1, n)]
         /\ IF n = Len(data) THEN FgGoto(t, "spawn")
                             ELSE FgFail(t, "Failed to write task file")
    /\ UNCHANGED <<envVars, tmpLog, bgVars, cmdVars, fsVars>>

\* main.go 83-98: os.Executable, exec.Command and cmd.Start.  The started
\* process is handleInternalRun with the task file's name as its argument.
handleDeploySpawn(t) ==
    /\ fgPc[t] = "spawn"
    /\ \E res \in {"nil", "executable", "start"} :
         /\ FgEnv(t, "spawn", res)
         /\ IF res = "nil"
            THEN /\ bgPc' = [bgPc EXCEPT ![t] = "read"]
                 /\ taskFile' = [taskFile EXCEPT ![t] = TempName(t)]
                 /\ FgGoto(t, "print")
            ELSE /\ FgFail(t, IF res = "executable" THEN "Failed to get executable path"
                                                    ELSE "Failed to start background process")
                 /\ UNCHANGED <<bgPc, taskFile>>
    /\ UNCHANGED <<envVars, tmpVars, bgMsg, task, bgEnv, execErr, handle, logIno, cmdVars, fsVars>>

\* os.Remove of the task file f by process who; the error for a missing file
\* is dropped.
RemoveTaskFile(f, who) ==
    IF tmp[f].exists
    THEN /\ tmp' = [tmp EXCEPT ![f].exists = FALSE]
         /\ tmpLog' = [tmpLog EXCEPT ![f] = Append(@, who)]
    ELSE UNCHANGED tmpVars

\* (handleDeploy with the deferred os.Remove of main.go 67 left in.)
handleDeployFinishRemoves(t) ==
    /\ fgPc[t] = "print"
    /\ fgPc' = [fgPc EXCEPT ![t] = "exited"]
    /\ fgExit' = [fgExit EXCEPT ![t] = 0]
    /\ fgMsg' = [fgMsg EXCEPT ![t] = Append(@, <<"Deployment started in background for task", t>>)]
    /\ RemoveTaskFile(TempName(t), "remove:handleDeploy")
    /\ UNCHANGED <<fgEnv, envVars, bgVars, cmdVars, fsVars>>

\* (handleDeploy calling cmd.Wait before it prints the confirmation.)
handleDeployFinishWaits(t) ==
    /\ fgPc[t] = "print"
    /\ bgPc[t] \in {"done", "exit1"}
    /\ fgPc' = [fgPc EXCEPT ![t] = "exited"]
    /\ fgExit' = [fgExit EXCEPT ![t] = 0]
    /\ fgMsg' = [fgMsg EXCEPT ![t] = Append(@, <<"Deployment started in background for task", t>>)]
    /\ UNCHANGED <<fgEnv, envVars, tmpVars, bgVars, cmdVars, fsVars>>

\* main.go 100-102: the confirmation is printed and main returns: exit status 0.
\* cmd.Wait is never called.
handleDeployFinish(t) ==
    /\ fgPc[t] = "print"
    /\ fgPc' = [fgPc EXCEPT ![t] = "exited"]
    /\ fgExit' = [fgExit EXCEPT ![t] = 0]
    /\ fgMsg' = [fgMsg EXCEPT ![t] = Append(@, <<"Deployment started in background for task", t>>)]
    /\ UNCHANGED <<fgEnv, envVars, tmpVars, bgVars, cmdVars, fsVars>>

handleDeploy(t) ==
    \/ handleDeployValidate(t)
    \/ handleDeployCreateTemp(t)
    \/ handleDeployWrite(t)
    \/ handleDeploySpawn(t)
    \/ handleDeployFinish(t)

\* ------------------------------------------------------------------ log files

NoHandle == [ino |-> NoIno, off |-> 0]

ActiveLog(d) == dirs[d].active

\* Content c after the entries es are written at offset off (counted in
\* entries): entries at the written places are replaced, a gap is sparse.
WriteAt(c, off, es) ==
    LET end == off + Len(es)
        n == IF Len(c) > end THEN Len(c) ELSE end
    IN [i \in 1..n |-> IF i > off /\ i <= end THEN es[i - off]
                       ELSE IF i <= Len(c) THEN c[i] ELSE Hole]

\* os.OpenFile(deployment.log, O_CREATE|O_WRONLY|...) succeeds when the
\* directory exists and the file exists already or may be created in it.
CanOpen(d) ==
    /\ d \in LogDirs
    /\ d \in fsExists
    /\ (ActiveLog(d) # NoIno \/ d \in fsWritable)

\* logFile.Sync (deployment.go 146 and 154): what file ino holds after the
\* write reaches stable storage.
Sync(ino) ==
    disk' = [i \in 1..Len(inodes') |-> IF i = ino THEN inodes'[i] ELSE disk[i]]

\* (writeLogEntry returning after WriteString, without Sync.)
writeLogEntryUnsynced(t, es) ==
    /\ inodes' = [inodes EXCEPT ![handle[t].ino] = WriteAt(@, handle[t].off, es)]
    /\ handle' = [handle EXCEPT ![t].off = @ + Len(es)]
    /\ UNCHANGED disk

\* writeLogEntry on logFile of ExecuteDeployment: WriteString at the handle's
\* offset (the file is not opened with O_APPEND), then Sync.
writeLogEntry(t, es) ==
    /\ inodes' = [inodes EXCEPT ![handle[t].ino] = WriteAt(@, handle[t].off, es)]
    /\ Sync(handle[t].ino)
    /\ handle' = [handle EXCEPT ![t].off = @ + Len(es)]

BgGoto(t, pc) == bgPc' = [bgPc EXCEPT ![t] = pc]

\* ------------------------------------------------------------ handleInternalRun

\* main.go 110-123: os.ReadFile and json.Unmarshal; a failure of either is
\* printed to the standard error and the process exits with status 1.
handleInternalRunLoad(t) ==
    /\ bgPc[t] = "read"
    /\ \E ok \in (IF tmp[taskFile[t]].exists THEN BOOLEAN ELSE {FALSE}) :
         IF ~ok
         THEN /\ BgGoto(t, "exit1")
              /\ bgMsg' = [bgMsg EXCEPT ![t] = Append(@, "Failed to read task file")]
              /\ UNCHANGED task
         ELSE IF ~UnmarshalOK(tmp[taskFile[t]].data)
         THEN /\ BgGoto(t, "exit1")
              /\ bgMsg' = [bgMsg EXCEPT ![t] = Append(@, "Failed to unmarshal task")]
              /\ UNCHANGED task
         ELSE /\ BgGoto(t, "open")
              /\ task' = [task EXCEPT ![t] = Unmarshal(tmp[taskFile[t]].data)]
              /\ UNCHANGED bgMsg
    /\ UNCHANGED <<envVars, fgVars, tmpVars, taskFile, bgEnv, execErr, handle, logIno, cmdVars, fsVars>>

\* ------------------------------------------------------------ ExecuteDeployment

\* ExecuteDeployment returns err; its deferred logFile.Close runs.
ExecReturn(t, err) ==
    /\ execErr' = [execErr EXCEPT ![t] = err]
    /\ BgGoto(t, "mark")

\* Process or goroutine t has changed the working directory (deployment.go
\* 65-68): os.Chdir acts on the whole process.
Chdired(t) ==
    \/ bgPc[t] \in {"stat", "start", "wait", "wgwait"}
    \/ bgPc[t] \in {"mark", "rotate", "remove", "done"} /\ execErr[t] \notin {"none", "open", "chdir"}

\* The directory the log path of t names now.  An absolute path names
\* itself; a relative one (the server lets it pass) is taken from the working
\* directory of the server, which is a project directory once a goroutine
\* has called os.Chdir (the tasks of one run have one project directory).
LogDirNow(t) ==
    IF IsAbs(task[t].LogPath) THEN task[t].LogPath
    ELSE IF \E g \in Tasks : Chdired(g)
    THEN task[CHOOSE g \in Tasks : Chdired(g)].ProjectPath \o task[t].LogPath
    ELSE task[t].LogPath

\* (An OpenFile that waits while another task holds deployment.log open.)
ExecOpenLocked(t) ==
    /\ bgPc[t] = "open"
    /\ \A u \in Tasks \ {t} : handle[u] = NoHandle \/ bgPc[u] = "none"
    /\ LET d == LogDirNow(t) IN
       IF ~CanOpen(d)
       THEN /\ ExecReturn(t, "open")
            /\ UNCHANGED <<handle, logIno, inodes, disk, dirs>>
       ELSE LET fresh == ActiveLog(d) = NoIno
                ino == IF fresh THEN Len(inodes) + 1 ELSE ActiveLog(d)
            IN /\ inodes' = IF fresh THEN Append(inodes, << >>)
                                     ELSE [inodes EXCEPT ![ino] = << >>]
               /\ disk' = IF fresh THEN Append(disk, << >>) ELSE disk
               /\ dirs' = [dirs EXCEPT ![d].active = ino]
               /\ handle' = [handle EXCEPT ![t] = [ino |-> ino, off |-> 0]]
               /\ logIno' = [logIno EXCEPT ![t] = ino]
               /\ BgGoto(t, "header")
               /\ UNCHANGED execErr
    /\ UNCHANGED <<envVars, fgVars, tmpVars, bgMsg, task, taskFile, bgEnv, cmdVars, scriptMode, now>>

\* deployment.go 50-55: deployment.log is opened with O_CREATE|O_WRONLY|O_TRUNC.
\* The truncation is not synced: it reaches stable storage with a later Sync.
ExecOpen(t) ==
    /\ bgPc[t] = "open"
    /\ LET d == LogDirNow(t) IN
       IF ~CanOpen(d)
       THEN /\ ExecReturn(t, "open")
            /\ UNCHANGED <<handle, logIno, inodes, disk, dirs>>
       ELSE LET fresh == ActiveLog(d) = NoIno
                ino == IF fresh THEN Len(inodes) + 1 ELSE ActiveLog(d)
            IN /\ inodes' = IF fresh THEN Append(inodes, << >>)
                                     ELSE [inodes EXCEPT ![ino] = << >>]
               /\ disk' = IF fresh THEN Append(disk, << >>) ELSE disk
               /\ dirs' = [dirs EXCEPT ![d].active = ino]
               /\ handle' = [handle EXCEPT ![t] = [ino |-> ino, off |-> 0]]
               /\ logIno' = [logIno EXCEPT ![t] = ino]
               /\ BgGoto(t, "header")
               /\ UNCHANGED execErr
    /\ UNCHANGED <<envVars, fgVars, tmpVars, bgMsg, task, taskFile, bgEnv, cmdVars, scriptMode, now>>

\* deployment.go 59-62: the four header entries, written one after the other
\* by the only goroutine there is at that point.
ExecHeader(t) ==
    /\ bgPc[t] = "header"
    /\ writeLogEntry(t, << Entry("STARTED", t, 0, ""), Entry("PROJECT", t, 0, ""),
                           Entry("SCRIPT", t, 0, ""), Entry("TASKID", t, 0, "") >>)
    /\ BgGoto(t, "chdir")
    /\ UNCHANGED <<envVars, fgVars, tmpVars, bgMsg, task, taskFile, bgEnv, execErr, logIno, cmdVars, dirs, scriptMode, now>>

\* (ExecuteDeployment returning an error without logging it.)
ExecFailSilent(t, n, why) ==
    /\ handle' = [handle EXCEPT ![t] = NoHandle]
    /\ ExecReturn(t, why)
    /\ UNCHANGED <<inodes, disk>>

\* An [ERROR] entry is written and ExecuteDeployment returns the error.
ExecFail(t, n, why) ==
    /\ inodes' = [inodes EXCEPT ![handle[t].ino] =
                      WriteAt(@, handle[t].off, << Entry("ERROR", t, n, why) >>)]
    /\ Sync(handle[t].ino)
    /\ handle' = [handle EXCEPT ![t] = NoHandle]
    /\ ExecReturn(t, why)

\* (ExecuteDeployment logging a failed os.Chdir and going on instead of
\* returning.)
ExecChdirGoesOn(t) ==
    /\ bgPc[t] = "chdir"
    /\ \E ok \in (IF task[t].ProjectPath \in fsExists THEN BOOLEAN ELSE {FALSE}) :
         /\ IF ok
            THEN UNCHANGED <<handle, inodes, disk>>
            ELSE writeLogEntry(t, << Entry("ERROR", t, 0, "chdir") >>)
         /\ BgGoto(t, "stat")
    /\ UNCHANGED <<envVars, fgVars, tmpVars, bgMsg, task, taskFile, bgEnv, execErr, logIno, cmdVars,
                   dirs, scriptMode, now>>

\* deployment.go 65-68: os.Chdir into the project directory.
ExecChdir(t) ==
    /\ bgPc[t] = "chdir"
    /\ \E ok \in (IF task[t].ProjectPath \in fsExists THEN BOOLEAN ELSE {FALSE}) :
         IF ok
         THEN /\ BgGoto(t, "stat")
              /\ UNCHANGED <<execErr, handle, inodes, disk>>
         ELSE ExecFail(t, 0, "chdir")
    /\ UNCHANGED <<envVars, fgVars, tmpVars, bgMsg, task, taskFile, bgEnv, logIno, cmdVars, dirs, scriptMode, now>>

\* a & b on permission bits.
RECURSIVE BitAnd(_, _)
BitAnd(a, b) ==
    IF a = 0 \/ b = 0 THEN 0
    ELSE (a % 2) * (b % 2) + 2 * BitAnd(a \div 2, b \div 2)

\* 0111: the three execute bits.
ExecBits == 73

\* 0755: the mode os.Chmod is called with.
ExecMode == 493

\* (ExecuteDeployment testing the owner's execute bit only.)
NeedsChmodOwnerOnly(mode) == BitAnd(mode, 64) = 0

\* deployment.go 78: scriptInfo.Mode()&0111 == 0.
NeedsChmod(mode) == BitAnd(mode, ExecBits) = 0

\* deployment.go 79-81: os.Chmod(script, 0755) sets all the permission bits of
\* the script; its failure is logged as a warning and nothing else happens.
Chmod(t, res) ==
    /\ bgEnv' = [bgEnv EXCEPT ![t].mode = scriptMode, ![t].chmod = res]
    /\ IF res = "nil"
       THEN /\ scriptMode' = ExecMode
            /\ UNCHANGED <<handle, inodes, disk>>
       ELSE /\ writeLogEntry(t, << Entry("WARNING", t, 0, "chmod") >>)
            /\ UNCHANGED scriptMode

\* deployment.go 71-82: os.Stat of the script; when no execute bit is set,
\* os.Chmod.
ExecStat(t) ==
    /\ bgPc[t] = "stat"
    /\ \E err \in Stat(task[t].DeploymentScriptPath) :
         IF err # "nil"
         THEN /\ ExecFail(t, 0, "stat")
              /\ UNCHANGED <<bgEnv, scriptMode>>
         ELSE /\ IF NeedsChmod(scriptMode)
                 THEN \E res \in {"nil", "error"} : Chmod(t, res)
                 ELSE /\ bgEnv' = [bgEnv EXCEPT ![t].mode = scriptMode]
                      /\ UNCHANGED <<handle, inodes, disk, scriptMode>>
              /\ BgGoto(t, "start")
              /\ UNCHANGED execErr
    /\ UNCHANGED <<envVars, fgVars, tmpVars, bgMsg, task, taskFile, logIno, cmdVars, dirs, now>>

NoLines == [s \in Streams |-> 0]

\* deployment.go 85-117: exec.Command, StdoutPipe, StderrPipe, cmd.Start and the
\* two readAndLogOutput goroutines.
ExecStart(t) ==
    /\ bgPc[t] = "start"
    /\ \E res \in {"nil", "stdoutpipe", "stderrpipe", "start"} :
         IF res # "nil"
         THEN /\ ExecFail(t, 0, res)
              /\ UNCHANGED cmdVars
         ELSE /\ cmd' = [cmd EXCEPT ![t] = [state |-> "running", status |-> 0,
                                            wrote |-> NoLines, orphan |-> FALSE,
                                            starts |-> cmd[t].starts + 1]]
              /\ rd' = [rd EXCEPT ![t] = [s \in Streams |->
                                            [pc |-> "scan", line |-> 0, failed |-> 0]]]
              /\ BgGoto(t, "wait")
              /\ UNCHANGED <<execErr, handle, inodes, disk, pipe>>
    /\ UNCHANGED <<envVars, fgVars, tmpVars, bgMsg, task, taskFile, bgEnv, logIno, dirs, scriptMode, now>>

\* ------------------------------------------------------------------ the script

\* The script writes its next line to stream s.
ScriptWrite(t, s) ==
    /\ cmd[t].state = "running"
    /\ cmd[t].wrote[s] < MaxLines
    /\ cmd' = [cmd EXCEPT ![t].wrote[s] = @ + 1]
    /\ pipe' = [pipe EXCEPT ![t][s].buf = Append(@, cmd[t].wrote[s] + 1)]
    /\ UNCHANGED <<envVars, fgVars, tmpVars, bgVars, rd, fsVars>>

\* A line of more than bufio.MaxScanTokenSize (64 KB) bytes: line number n
\* of its stream, written as -n.
TooLong(n) == 0 - n

IsTooLong(line) == line < 0

\* The script writes a line of more than 64 KB to stream s.
ScriptWriteLong(t, s) ==
    /\ cmd[t].state = "running"
    /\ cmd[t].wrote[s] < MaxLines
    /\ cmd' = [cmd EXCEPT ![t].wrote[s] = @ + 1]
    /\ pipe' = [pipe EXCEPT ![t][s].buf = Append(@, TooLong(cmd[t].wrote[s] + 1))]
    /\ UNCHANGED <<envVars, fgVars, tmpVars, bgVars, rd, fsVars>>

ExitStatuses == {0, 1}

\* The script exits; a process it started may still hold the pipes' write ends.
ScriptExit(t) ==
    /\ cmd[t].state = "running"
    /\ \E status \in ExitStatuses, orphan \in BOOLEAN :
         cmd' = [cmd EXCEPT ![t].state = "exited", ![t].status = status,
                            ![t].orphan = orphan]
    /\ UNCHANGED <<envVars, fgVars, tmpVars, bgVars, pipe, rd, fsVars>>

\* The last process holding the pipes' write ends exits.
DescendantExit(t) ==
    /\ cmd[t].state = "exited"
    /\ cmd[t].orphan
    /\ cmd' = [cmd EXCEPT ![t].orphan = FALSE]
    /\ UNCHANGED <<envVars, fgVars, tmpVars, bgVars, pipe, rd, fsVars>>

\* No process holds the write end of the pipes any more.
WriteEndClosed(t) == cmd[t].state = "exited" /\ ~cmd[t].orphan

\* ------------------------------------------------------------ readAndLogOutput

\* (A scanner that returned the newest waiting line instead of the oldest.)
PipeReadNewest(buf) == [line |-> buf[Len(buf)], rest |-> SubSeq(buf, 1, Len(buf) - 1)]

\* The line scanner.Scan returns from the bytes waiting in the pipe, and what
\* it leaves there: a pipe is first in, first out.  (Lines the scanner holds
\* in its own buffer count as read: they are delivered like lines read later.)
PipeRead(buf) == [line |-> Head(buf), rest |-> Tail(buf)]

\* (A reader that takes nothing from the pipe before the script has exited.)
readScanWaitsExit(t, s) ==
    /\ rd[t][s].pc = "scan"
    /\ cmd[t].state = "exited"
    /\ IF pipe[t][s].closed
       THEN /\ rd' = [rd EXCEPT ![t][s].pc = "done"]
            /\ UNCHANGED pipe
       ELSE IF pipe[t][s].buf # << >>
       THEN /\ rd' = [rd EXCEPT ![t][s].pc = "write", ![t][s].line = PipeRead(pipe[t][s].buf).line]
            /\ pipe' = [pipe EXCEPT ![t][s].buf = PipeRead(@).rest]
       ELSE /\ WriteEndClosed(t)
            /\ rd' = [rd EXCEPT ![t][s].pc = "done"]
            /\ pipe' = [pipe EXCEPT ![t][s].closed = TRUE]
    /\ UNCHANGED <<envVars, fgVars, tmpVars, bgVars, cmd, fsVars>>

\* deployment.go 137-139: scanner.Scan.  It returns false when the read fails
\* because the pipe's read end has been closed (by cmd.Wait), at end of file,
\* and when the next line does not fit the scanner's buffer (bufio.ErrTooLong);
\* readAndLogOutput then returns: wg.Done and pipe.Close.
readScan(t, s) ==
    /\ rd[t][s].pc = "scan"
    /\ IF pipe[t][s].closed
       THEN /\ rd' = [rd EXCEPT ![t][s].pc = "done"]
            /\ UNCHANGED pipe
       ELSE IF pipe[t][s].buf # << >> /\ IsTooLong(PipeRead(pipe[t][s].buf).line)
       THEN /\ rd' = [rd EXCEPT ![t][s].pc = "done"]
            /\ pipe' = [pipe EXCEPT ![t][s].closed = TRUE]
       ELSE IF pipe[t][s].buf # << >>
       THEN /\ rd' = [rd EXCEPT ![t][s].pc = "write", ![t][s].line = PipeRead(pipe[t][s].buf).line]
            /\ pipe' = [pipe EXCEPT ![t][s].buf = PipeRead(@).rest]
       ELSE /\ WriteEndClosed(t)
            /\ rd' = [rd EXCEPT ![t][s].pc = "done"]
            /\ pipe' = [pipe EXCEPT ![t][s].closed = TRUE]
    /\ UNCHANGED <<envVars, fgVars, tmpVars, bgVars, cmd, fsVars>>

\* deployment.go 140-146: the line is written to the log with its stream's
\* prefix and synced; a failed write is reported by log.Printf and the loop
\* goes on.
readWrite(t, s) ==
    /\ rd[t][s].pc = "write"
    /\ \E ok \in (IF rd[t][s].failed < MaxWriteFail THEN BOOLEAN ELSE {TRUE}) :
         IF ok
         THEN /\ writeLogEntry(t, << Entry(s, t, rd[t][s].line, "") >>)
              /\ rd' = [rd EXCEPT ![t][s].pc = "scan"]
              /\ UNCHANGED bgMsg
         ELSE /\ rd' = [rd EXCEPT ![t][s].pc = "scan", ![t][s].failed = @ + 1]
              /\ bgMsg' = [bgMsg EXCEPT ![t] = Append(@, "Failed to write to log file")]
              /\ UNCHANGED <<handle, inodes, disk>>
    /\ UNCHANGED <<envVars, fgVars, tmpVars, bgPc, task, taskFile, bgEnv, execErr, logIno, cmd, pipe, dirs, scriptMode, now>>

readAndLogOutput(t, s) == readScan(t, s) \/ readWrite(t, s)

\* (A cmd.Wait that leaves the read ends of the pipes open.)
ExecWaitKeepsPipes(t) ==
    /\ bgPc[t] = "wait"
    /\ cmd[t].state = "exited"
    /\ UNCHANGED pipe
    /\ BgGoto(t, "wgwait")
    /\ UNCHANGED <<envVars, fgVars, tmpVars, bgMsg, task, taskFile, bgEnv, execErr, handle, logIno, cmd, rd, fsVars>>

\* (A cmd.Wait with a deadline: a script still running is killed.)
ExecWaitTimesOut(t) ==
    /\ bgPc[t] = "wait"
    /\ cmd' = [cmd EXCEPT ![t].state = "exited",
                          ![t].status = IF cmd[t].state = "exited" THEN @ ELSE 1]
    /\ pipe' = [pipe EXCEPT ![t] = [s \in Streams |-> [pipe[t][s] EXCEPT !.closed = TRUE]]]
    /\ BgGoto(t, "wgwait")
    /\ UNCHANGED <<envVars, fgVars, tmpVars, bgMsg, task, taskFile, bgEnv, execErr, handle, logIno, rd, fsVars>>

\* deployment.go 120: cmd.Wait returns once the script has exited, and closes
\* the read ends of both pipes before it returns.
ExecWait(t) ==
    /\ bgPc[t] = "wait"
    /\ cmd[t].state = "exited"
    /\ pipe' = [pipe EXCEPT ![t] = [s \in Streams |-> [pipe[t][s] EXCEPT !.closed = TRUE]]]
    /\ BgGoto(t, "wgwait")
    /\ UNCHANGED <<envVars, fgVars, tmpVars, bgMsg, task, taskFile, bgEnv, execErr, handle, logIno, cmd, rd, fsVars>>

\* (ExecuteDeployment testing an error other than cmdErr, which is nil there.)
WaitResultIgnored(cmdErr) == "nil"

\* What ExecuteDeployment returns for the error cmdErr of cmd.Wait.
WaitResult(cmdErr) == IF cmdErr # 0 THEN "exit" ELSE "nil"

\* (ExecuteDeployment running the script again after a non-zero exit.)
ExecJoinRetries(t) ==
    /\ bgPc[t] = "wgwait"
    /\ \A s \in Streams : rd[t][s].pc = "done"
    /\ IF WaitResult(cmd[t].status) # "nil"
       THEN /\ writeLogEntry(t, << Entry("ERROR", t, cmd[t].status, "exit") >>)
            /\ BgGoto(t, "start")
            /\ UNCHANGED execErr
       ELSE /\ inodes' = [inodes EXCEPT ![handle[t].ino] =
                              WriteAt(@, handle[t].off, << Entry("COMPLETED", t, 0, "") >>)]
            /\ Sync(handle[t].ino)
            /\ handle' = [handle EXCEPT ![t] = NoHandle]
            /\ ExecReturn(t, "nil")
    /\ UNCHANGED <<envVars, fgVars, tmpVars, bgMsg, task, taskFile, bgEnv, logIno, cmdVars, dirs,
                   scriptMode, now>>

\* (ExecuteDeployment without wg.Wait: the completion or error entry is
\* written as soon as cmd.Wait has returned.)
ExecJoinNoWgWait(t) ==
    /\ bgPc[t] = "wgwait"
    /\ IF WaitResult(cmd[t].status) # "nil"
       THEN ExecFail(t, cmd[t].status, WaitResult(cmd[t].status))
       ELSE /\ inodes' = [inodes EXCEPT ![handle[t].ino] =
                              WriteAt(@, handle[t].off, << Entry("COMPLETED", t, 0, "") >>)]
            /\ Sync(handle[t].ino)
            /\ handle' = [handle EXCEPT ![t] = NoHandle]
            /\ ExecReturn(t, "nil")
    /\ UNCHANGED <<envVars, fgVars, tmpVars, bgMsg, task, taskFile, bgEnv, logIno, cmdVars, dirs,
                   scriptMode, now>>

\* deployment.go 123-131: wg.Wait, then the error entry or the completion entry.
ExecJoin(t) ==
    /\ bgPc[t] = "wgwait"
    /\ \A s \in Streams : rd[t][s].pc = "done"
    /\ IF WaitResult(cmd[t].status) # "nil"
       THEN ExecFail(t, cmd[t].status, WaitResult(cmd[t].status))
       ELSE /\ inodes' = [inodes EXCEPT ![handle[t].ino] =
                              WriteAt(@, handle[t].off, << Entry("COMPLETED", t, 0, "") >>)]
            /\ Sync(handle[t].ino)
            /\ handle' = [handle EXCEPT ![t] = NoHandle]
            /\ ExecReturn(t, "nil")
    /\ UNCHANGED <<envVars, fgVars, tmpVars, bgMsg, task, taskFile, bgEnv, logIno, cmdVars, dirs, scriptMode, now>>

ExecuteDeployment(t) ==
    \/ ExecOpen(t)
    \/ ExecHeader(t)
    \/ ExecChdir(t)
    \/ ExecStat(t)
    \/ ExecStart(t)
    \/ ExecWait(t)
    \/ ExecJoin(t)

\* ------------------------------------------------- WriteLog, RotateLog, cleanup

\* The entry handleInternalRun writes for the result err of ExecuteDeployment
\* (main.go 126-130); n is the exit status the error message carries.
OutcomeMarker(t, err, n) ==
    IF err # "nil" THEN Entry("FAILED", t, n, err) ELSE Entry("SUCCESS", t, 0, "")

\* (WriteLog opening deployment.log with O_TRUNC instead of O_APPEND.)
RunMarkTruncates(t) ==
    /\ bgPc[t] = "mark"
    /\ LET d == task[t].LogPath
           n == IF execErr[t] = "exit" THEN cmd[t].status ELSE 0
           e == OutcomeMarker(t, execErr[t], n)
       IN IF ~CanOpen(d)
          THEN /\ bgMsg' = [bgMsg EXCEPT ![t] = Append(@, "Failed to open log file for writing")]
               /\ UNCHANGED <<inodes, disk, dirs>>
          ELSE /\ IF ActiveLog(d) = NoIno
                  THEN /\ inodes' = Append(inodes, << e >>)
                       /\ Sync(Len(inodes) + 1)
                       /\ dirs' = [dirs EXCEPT ![d].active = Len(inodes) + 1]
                  ELSE /\ inodes' = [inodes EXCEPT ![ActiveLog(d)] = << e >>]
                       /\ Sync(ActiveLog(d))
                       /\ UNCHANGED dirs
               /\ UNCHANGED bgMsg
    /\ BgGoto(t, "rotate")
    /\ UNCHANGED <<envVars, fgVars, tmpVars, task, taskFile, bgEnv, execErr, handle, logIno, cmdVars, scriptMode, now>>

\* main.go 126-130 and WriteLog (deployment.go 157-166): deployment.log is
\* opened with O_CREATE|O_WRONLY|O_APPEND and the marker is appended; when the
\* file cannot be opened nothing is written.
RunMark(t) ==
    /\ bgPc[t] = "mark"
    /\ LET d == task[t].LogPath
           n == IF execErr[t] = "exit" THEN cmd[t].status ELSE 0
           e == OutcomeMarker(t, execErr[t], n)
       IN IF ~CanOpen(d)
          THEN /\ bgMsg' = [bgMsg EXCEPT ![t] = Append(@, "Failed to open log file for writing")]
               /\ UNCHANGED <<inodes, disk, dirs>>
          ELSE /\ IF ActiveLog(d) = NoIno
                  THEN /\ inodes' = Append(inodes, << e >>)
                       /\ Sync(Len(inodes) + 1)
                       /\ dirs' = [dirs EXCEPT ![d].active = Len(inodes) + 1]
                  ELSE /\ inodes' = [inodes EXCEPT ![ActiveLog(d)] = Append(@, e)]
                       /\ Sync(ActiveLog(d))
                       /\ UNCHANGED dirs
               /\ UNCHANGED bgMsg
    /\ BgGoto(t, "rotate")
    /\ UNCHANGED <<envVars, fgVars, tmpVars, task, taskFile, bgEnv, execErr, handle, logIno, cmdVars, scriptMode, now>>

\* (RotateLog copying deployment.log to the new name instead of renaming it.)
RotateLogInCopies(D, d, ts) ==
    IF d \notin LogDirs \/ d \notin fsExists \/ D[d].active = NoIno
    THEN [err |-> "nil", dirs |-> D]
    ELSE IF d \notin fsWritable
    THEN [err |-> "error", dirs |-> D]
    ELSE [err |-> "renamed", dirs |-> [D EXCEPT ![d].rotated[ts] = D[d].active]]

\* (RotateLog calling os.Rename without the os.Stat that precedes it.)
RotateLogInNoStat(D, d, ts) ==
    IF d \notin LogDirs \/ d \notin fsExists \/ D[d].active = NoIno \/ d \notin fsWritable
    THEN [err |-> "error", dirs |-> D]
    ELSE [err |-> "renamed",
          dirs |-> [D EXCEPT ![d].rotated[ts] = D[d].active, ![d].active = NoIno]]

\* RotateLog (deployment.go 168-176) for the names D of the log directories
\* and the clock reading ts: nothing is done and nil is returned when
\* deployment.log does not exist; else os.Rename, which replaces a file that
\* has the new name already.  err is what RotateLog returns ("renamed" is nil
\* after a rename) and dirs the names afterwards.
RotateLogIn(D, d, ts) ==
    IF d \notin LogDirs \/ d \notin fsExists \/ D[d].active = NoIno
    THEN [err |-> "nil", dirs |-> D]
    ELSE IF d \notin fsWritable
    THEN [err |-> "error", dirs |-> D]
    ELSE [err |-> "renamed",
          dirs |-> [D EXCEPT ![d].rotated[ts] = D[d].active, ![d].active = NoIno]]

\* What RotateLog returns in the current state.
RotateLog(d, ts) == RotateLogIn(dirs, d, ts).err

\* (handleInternalRun calling RotateLog before, and in place of, the WriteLog
\* of the outcome.)
RunRotateBeforeMark(t) ==
    /\ bgPc[t] = "mark"
    /\ \E ts \in now..MaxClock :
         LET d == task[t].LogPath IN
         /\ now' = ts
         /\ bgEnv' = [bgEnv EXCEPT ![t].rot = RotateLog(d, ts)]
         /\ dirs' = RotateLogIn(dirs, d, ts).dirs
    /\ BgGoto(t, "remove")
    /\ UNCHANGED <<envVars, fgVars, tmpVars, bgMsg, task, taskFile, execErr, handle, logIno, cmdVars, inodes, disk, scriptMode>>

\* main.go 133-135: RotateLog; its error is dropped.
RunRotate(t) ==
    /\ bgPc[t] = "rotate"
    /\ \E ts \in now..MaxClock :
         LET d == task[t].LogPath IN
         /\ now' = ts
         /\ bgEnv' = [bgEnv EXCEPT ![t].rot = RotateLog(d, ts)]
         /\ dirs' = RotateLogIn(dirs, d, ts).dirs
    /\ BgGoto(t, "remove")
    /\ UNCHANGED <<envVars, fgVars, tmpVars, bgMsg, task, taskFile, execErr, handle, logIno, cmdVars, inodes, disk, scriptMode>>

\* main.go 138: the task file is removed and the process ends.
RunRemove(t) ==
    /\ bgPc[t] = "remove"
    /\ RemoveTaskFile(taskFile[t], "remove:handleInternalRun")
    /\ BgGoto(t, "done")
    /\ UNCHANGED <<envVars, fgVars, bgMsg, task, taskFile, bgEnv, execErr, handle, logIno, cmdVars, fsVars>>

handleInternalRun(t) ==
    \/ handleInternalRunLoad(t)
    \/ ExecuteDeployment(t)
    \/ RunMark(t)
    \/ RunRotate(t)
    \/ RunRemove(t)

\* ------------------------------------------- the HTTP server with a file queue
\* An earlier form of the program: requests come to an HTTP handler that puts
\* task files into a queue directory, and a file watcher of the same process
\* runs them.  A request t takes the place of a `deploy` invocation: args[t]
\* are the three fields of its body, fgPc[t] is the handler's position,
\* fgExit[t] the status of the response and fgMsg[t] its body; tmp[t] is
\* the queue file task_<TaskID>.json, and bgPc[t] the position of the
\* processDeploymentTask goroutine.

\* http.Error: the response with this status and message.
HttpError(t, code, msg) ==
    /\ fgPc' = [fgPc EXCEPT ![t] = "exited"]
    /\ fgExit' = [fgExit EXCEPT ![t] = code]
    /\ fgMsg' = [fgMsg EXCEPT ![t] = Append(@, <<msg, 0>>)]

\* validatePaths of the server: st is what os.Stat returns for each path and
\* probe whether os.WriteFile of <logPath>/.deployer_test succeeds.  There is
\* no filepath.IsAbs for the log path.
validatePaths(project, script, logs, st, probe) ==
    IF ~IsAbs(project) THEN "projectPath must be an absolute path"
    ELSE IF IsNotExist(st.project) THEN "projectPath does not exist"
    ELSE IF ~IsAbs(script) THEN "deploymentScriptPath must be an absolute path"
    ELSE IF IsNotExist(st.script) THEN "deploymentScriptPath does not exist"
    ELSE IF IsNotExist(st.logs) THEN "logPath directory does not exist"
    ELSE IF ~probe THEN "logPath directory is not writable"
    ELSE "nil"

\* What os.Stat can return for the fields of a request: the empty path is
\* ENOENT.
RequestStats(a) ==
    {st \in StatResults(a) :
        /\ a.project = EmptyPath => st.project = "ENOENT"
        /\ a.script = EmptyPath => st.script = "ENOENT"
        /\ a.logs = EmptyPath => st.logs = "ENOENT"}

\* The write probe of validatePaths: the test file can be created when the
\* directory is there and writable (the probe file is removed again).
ProbeOK(a, st) == st.logs = "nil" /\ a.logs \in fsWritable

\* handleDeployRequest up to the call of writeTaskToFile: the method, the
\* JSON body, validatePaths.
handleDeployRequest(t) ==
    /\ fgPc[t] = "validate"
    /\ \E method \in {"POST", "GET"}, json \in BOOLEAN :
         IF method # "POST"
         THEN HttpError(t, 405, "Method not allowed") /\ FgEnv(t, "validate", "method")
         ELSE IF ~json
         THEN HttpError(t, 400, "Invalid JSON") /\ FgEnv(t, "validate", "json")
         ELSE \E st \in RequestStats(args[t]) :
                LET a == args[t]
                    err == validatePaths(a.project, a.script, a.logs, st, ProbeOK(a, st))
                IN /\ FgEnv(t, "validate", err)
                   /\ IF err # "nil" THEN HttpError(t, 400, err) ELSE FgGoto(t, "queue")
    /\ UNCHANGED <<envVars, tmpVars, bgVars, cmdVars, fsVars>>

\* The name of the queue file of the task with this TaskID.
TaskFileName(id) == id

\* json.Marshal of the server's DeploymentTask, which has a CreatedAt field.
MarshalQueued(tk) == Append(Marshal(tk), <<"CreatedAt", 0>>)

\* json.Unmarshal of a queue file: fails on a document that is cut short.
UnmarshalQueuedOK(data) == Len(data) = 5

\* writeTaskToFile, first half: os.WriteFile opens the queue file with
\* O_CREATE|O_TRUNC; the file is there, and empty.  When the queue directory
\* is watched (watcher.Add has returned) the creation puts a Create event
\* into the watcher's channel.
writeTaskToFileCreate(t) ==
    /\ fgPc[t] = "queue"
    /\ \E ok \in BOOLEAN :
         /\ FgEnv(t, "createtemp", IF ok THEN "nil" ELSE "error")
         /\ IF ok
            THEN /\ tmp' = [tmp EXCEPT ![TaskFileName(t)] = [exists |-> TRUE, data |-> << >>]]
                 /\ tmpLog' = [tmpLog EXCEPT ![TaskFileName(t)] = Append(@, "create:writeTaskToFile")]
                 /\ watcher' = IF watcher.pc \in {"existing", "loop"}
                               THEN [watcher EXCEPT !.events = Append(@, TaskFileName(t))]
                               ELSE watcher
                 /\ FgGoto(t, "queuewrite")
            ELSE /\ HttpError(t, 500, "Failed to queue deployment")
                 /\ UNCHANGED <<tmpVars, watcher>>
    /\ UNCHANGED <<args, fsExists, fsWritable, bgVars, cmdVars, fsVars>>

\* writeTaskToFile, second half, and the end of handleDeployRequest:
\* os.WriteFile writes the data and closes the file (a failed write leaves a
\* part of the data); the response is 500, or the JSON document with status
\* "queued" and the task id.
writeTaskToFileWrite(t) ==
    /\ fgPc[t] = "queuewrite"
    /\ LET data == MarshalQueued(DeploymentTask(args[t].project, args[t].script, args[t].logs, t)) IN
       \E n \in {0, 2, Len(data)} :
         /\ FgEnv(t, "write", IF n = Len(data) THEN "nil" ELSE "error")
         /\ tmp' = [tmp EXCEPT ![TaskFileName(t)].data = SubSeq(data, 1, n)]
         /\ fgPc' = [fgPc EXCEPT ![t] = "exited"]
         /\ IF n = Len(data)
            THEN /\ fgExit' = [fgExit EXCEPT ![t] = 200]
                 /\ fgMsg' = [fgMsg EXCEPT ![t] = Append(@, <<"queued", t>>)]
            ELSE /\ fgExit' = [fgExit EXCEPT ![t] = 500]
                 /\ fgMsg' = [fgMsg EXCEPT ![t] = Append(@, <<"Failed to queue deployment", 0>>)]
    /\ UNCHANGED <<envVars, tmpLog, bgVars, cmdVars, fsVars>>

writeTaskToFile(t) == writeTaskToFileCreate(t) \/ writeTaskToFileWrite(t)

\* The goroutines that have not been started.
FreeSlots == {g \in Tasks : bgPc[g] = "none"}

\* The goroutine the next `go processDeploymentTask` gives: g is the first
\* of the free ones.
NextSlot(g) == g \in FreeSlots /\ \A h \in FreeSlots : g <= h

\* The task files in the queue directory.
QueueFiles == {f \in Tasks : tmp[f].exists}

\* startFileWatcher up to watcher.Add (part_000 66-78): from now on the
\* creation of a file in the queue directory gives an event.  (A failure of
\* NewWatcher or Add ends the server: log.Fatalf.)
watcherAdd ==
    /\ watcher.pc = "add"
    /\ watcher' = [watcher EXCEPT !.pc = "existing"]
    /\ UNCHANGED <<args, fsExists, fsWritable, fgVars, tmpVars, bgVars, cmdVars, fsVars>>

\* processExistingFiles (part_000 107-120): os.ReadDir, and a
\* processDeploymentTask goroutine for every task file that is there, written
\* in full or not, with an event waiting for it or not.
processExistingFiles ==
    /\ watcher.pc = "existing"
    /\ watcher' = [watcher EXCEPT !.pc = "loop"]
    /\ \E start \in [QueueFiles -> FreeSlots] :
         /\ \A f1, f2 \in QueueFiles : f1 < f2 => start[f1] < start[f2]
         /\ \A g \in FreeSlots : (\A f \in QueueFiles : start[f] # g) =>
                                     \A f \in QueueFiles : start[f] < g
         /\ bgPc' = [g \in Tasks |-> IF \E f \in QueueFiles : start[f] = g THEN "read" ELSE bgPc[g]]
         /\ taskFile' = [g \in Tasks |-> IF \E f \in QueueFiles : start[f] = g
                                          THEN CHOOSE f \in QueueFiles : start[f] = g
                                          ELSE taskFile[g]]
    /\ UNCHANGED <<args, fsExists, fsWritable, fgVars, tmpVars, bgMsg, task, bgEnv, execErr, handle, logIno, cmdVars, fsVars>>

\* The event loop of startFileWatcher (part_000 84-97): the next Create event
\* is taken, the 100 ms pass and processDeploymentTask is started, as
\* goroutine g, with the name of the file.  Nothing waits for the writer of
\* the file, and nothing records that the file has a goroutine already.
startFileWatcher(g) ==
    /\ watcher.pc = "loop"
    /\ watcher.events # << >>
    /\ NextSlot(g)
    /\ watcher' = [watcher EXCEPT !.events = Tail(@)]
    /\ bgPc' = [bgPc EXCEPT ![g] = "read"]
    /\ taskFile' = [taskFile EXCEPT ![g] = Head(watcher.events)]
    /\ UNCHANGED <<args, fsExists, fsWritable, fgVars, tmpVars, bgMsg, task, bgEnv, execErr, handle, logIno, cmdVars, fsVars>>

\* processDeploymentTask: os.ReadFile and json.Unmarshal; after a failure of
\* either the goroutine logs it and returns, and the file stays in the queue.
processDeploymentTaskLoad(t) ==
    /\ bgPc[t] = "read"
    /\ \E ok \in (IF tmp[taskFile[t]].exists THEN BOOLEAN ELSE {FALSE}) :
         IF ~ok
         THEN /\ BgGoto(t, "dropped")
              /\ bgMsg' = [bgMsg EXCEPT ![t] = Append(@, "Failed to read task file")]
              /\ UNCHANGED task
         ELSE IF ~UnmarshalQueuedOK(tmp[taskFile[t]].data)
         THEN /\ BgGoto(t, "dropped")
              /\ bgMsg' = [bgMsg EXCEPT ![t] = Append(@, "Failed to unmarshal task file")]
              /\ UNCHANGED task
         ELSE /\ BgGoto(t, "open")
              /\ task' = [task EXCEPT ![t] = Unmarshal(tmp[taskFile[t]].data)]
              /\ UNCHANGED bgMsg
    /\ UNCHANGED <<envVars, fgVars, tmpVars, taskFile, bgEnv, execErr, handle, logIno, cmdVars, fsVars>>

\* processDeploymentTask: writeLog of the outcome, as WriteLog does it.
processWriteLog(t) ==
    /\ bgPc[t] = "mark"
    /\ LET d == LogDirNow(t)
           n == IF execErr[t] = "exit" THEN cmd[t].status ELSE 0
           e == OutcomeMarker(t, execErr[t], n)
       IN IF ~CanOpen(d)
          THEN /\ bgMsg' = [bgMsg EXCEPT ![t] = Append(@, "Failed to open log file for writing")]
               /\ UNCHANGED <<inodes, disk, dirs>>
          ELSE /\ IF ActiveLog(d) = NoIno
                  THEN /\ inodes' = Append(inodes, << e >>)
                       /\ Sync(Len(inodes) + 1)
                       /\ dirs' = [dirs EXCEPT ![d].active = Len(inodes) + 1]
                  ELSE /\ inodes' = [inodes EXCEPT ![ActiveLog(d)] = Append(@, e)]
                       /\ Sync(ActiveLog(d))
                       /\ UNCHANGED dirs
               /\ UNCHANGED bgMsg
    /\ BgGoto(t, "rotate")
    /\ UNCHANGED <<envVars, fgVars, tmpVars, task, taskFile, bgEnv, execErr, handle, logIno, cmdVars, scriptMode, now>>

\* rotateLog of the server: os.Rename with no os.Stat before it: the rename
\* of a deployment.log that is not there is an error.
rotateLogIn(D, d, ts) ==
    IF d \notin LogDirs \/ d \notin fsExists \/ D[d].active = NoIno \/ d \notin fsWritable
    THEN [err |-> "error", dirs |-> D]
    ELSE [err |-> "renamed",
          dirs |-> [D EXCEPT ![d].rotated[ts] = D[d].active, ![d].active = NoIno]]

\* processDeploymentTask: rotateLog; its error is logged by log.Printf.
processRotateLog(t) ==
    /\ bgPc[t] = "rotate"
    /\ \E ts \in now..MaxClock :
         LET r == rotateLogIn(dirs, LogDirNow(t), ts) IN
         /\ now' = ts
         /\ bgEnv' = [bgEnv EXCEPT ![t].rot = r.err]
         /\ dirs' = r.dirs
         /\ bgMsg' = [bgMsg EXCEPT ![t] = IF r.err = "error"
                                          THEN Append(@, "Failed to rotate log file") ELSE @]
    /\ BgGoto(t, "remove")
    /\ UNCHANGED <<envVars, fgVars, tmpVars, task, taskFile, execErr, handle, logIno, cmdVars, inodes, disk, scriptMode>>

\* processDeploymentTask: os.Remove of the task file; the goroutine returns.
processRemove(t) ==
    /\ bgPc[t] = "remove"
    /\ RemoveTaskFile(taskFile[t], "remove:processDeploymentTask")
    /\ BgGoto(t, "done")
    /\ UNCHANGED <<envVars, fgVars, bgMsg, task, taskFile, bgEnv, execErr, handle, logIno, cmdVars, fsVars>>

processDeploymentTask(t) ==
    \/ processDeploymentTaskLoad(t)
    \/ ExecuteDeployment(t)
    \/ processWriteLog(t)
    \/ processRotateLog(t)
    \/ processRemove(t)

\* ------------------------------------------------------------ specifications

ArgRecs == [project : ProjectArgs, script : ScriptArgs, logs : LogArgs]

NoArgs == [project |-> EmptyPath, script |-> EmptyPath, logs |-> EmptyPath]

NoDir == [active |-> NoIno, rotated |-> [ts \in 0..MaxClock |-> NoIno]]

\* Nothing returned yet: no mode seen, no os.Chmod, no RotateLog.
NoBgEnv == [mode |-> -1, chmod |-> "none", rot |-> "none"]

\* The state before the invocations of the tasks in A; a log directory that
\* exists may hold a deployment.log left by an earlier deployment.
\* No file watcher: the command-line program has none.
NoWatcher == [pc |-> "none", events |-> << >>]

\* The invocations (or requests) A have come, nothing has run yet, and the
\* file watcher is w.
InitState(A, w) ==
    /\ watcher = w
    /\ fgPc = [t \in Tasks |-> IF t \in A THEN "validate" ELSE "absent"]
    /\ fgExit = [t \in Tasks |-> -1]
    /\ fgMsg = [t \in Tasks |-> << >>]
    /\ fgEnv = [t \in Tasks |-> [step \in {"validate", "createtemp", "write", "spawn"} |-> "pending"]]
    /\ tmp = [t \in Tasks |-> [exists |-> FALSE, data |-> << >>]]
    /\ tmpLog = [t \in Tasks |-> << >>]
    /\ bgPc = [t \in Tasks |-> "none"]
    /\ bgMsg = [t \in Tasks |-> << >>]
    /\ task = [t \in Tasks |-> NoTask]
    /\ taskFile = [t \in Tasks |-> 0]
    /\ bgEnv = [t \in Tasks |-> NoBgEnv]
    /\ execErr = [t \in Tasks |-> "none"]
    /\ handle = [t \in Tasks |-> NoHandle]
    /\ logIno = [t \in Tasks |-> NoIno]
    /\ cmd = [t \in Tasks |-> [state |-> "none", status |-> 0, wrote |-> NoLines,
                                orphan |-> FALSE, starts |-> 0]]
    /\ pipe = [t \in Tasks |-> [s \in Streams |-> [buf |-> << >>, closed |-> FALSE]]]
    /\ rd = [t \in Tasks |-> [s \in Streams |-> [pc |-> "idle", line |-> 0, failed |-> 0]]]
    /\ now = 0

InitProcs(A) == InitState(A, NoWatcher)

\* One `deploy` invocation, task 1, with any flags and any state of the three
\* paths; the script has mode 0644; task 2 is not invoked.
Init ==
    /\ InitProcs({1})
    /\ \E a \in ArgRecs : args = [t \in Tasks |-> IF t = 1 THEN a ELSE NoArgs]
    /\ fsExists \in SUBSET {ProjectDir, ScriptFile, LogDirL}
    /\ fsWritable \in SUBSET (fsExists \cap LogDirs)
    /\ scriptMode = 420
    /\ \E left \in SUBSET (fsExists \cap LogDirs) :
         /\ inodes = IF LogDirL \in left THEN << << OldEntry >> >> ELSE << >>
         /\ disk = inodes
         /\ dirs = [d \in LogDirs |-> IF d \in left THEN [NoDir EXCEPT !.active = 1] ELSE NoDir]

Next ==
    \E t \in Tasks :
        \/ handleDeploy(t)
        \/ handleInternalRun(t)
        \/ \E s \in Streams : ScriptWrite(t, s)
        \/ ScriptExit(t)
        \/ DescendantExit(t)
        \/ \E s \in Streams : readAndLogOutput(t, s)

Spec == Init /\ [][Next]_vars

\* The foreground process runs on whatever the background process and the
\* script do: its steps are weakly fair, nothing else is.
SpecFg == Init /\ [][Next]_vars /\ \A t \in Tasks : WF_vars(handleDeploy(t))

\* The `internal-run` process of task t dies (killed, or the machine goes
\* down) at any point of handleInternalRun: its goroutines and its open
\* files go with it, and what is on stable storage stays.
BgCrash(t) ==
    /\ bgPc[t] \notin {"none", "done", "exit1", "crashed"}
    /\ BgGoto(t, "crashed")
    /\ handle' = [handle EXCEPT ![t] = NoHandle]
    /\ rd' = [rd EXCEPT ![t] = [s \in Streams |-> [rd[t][s] EXCEPT !.pc = "killed"]]]
    /\ pipe' = [pipe EXCEPT ![t] = [s \in Streams |-> [pipe[t][s] EXCEPT !.closed = TRUE]]]
    /\ UNCHANGED <<envVars, fgVars, tmpVars, bgMsg, task, taskFile, bgEnv, execErr, logIno, cmd, fsVars>>

NextCrash ==
    \/ Next
    \/ \E t \in Tasks : BgCrash(t)

\* Permission bits a deployment script may have: 0600, 0644, 0654 (executable
\* by its group only) and 0755.
Modes == {384, 420, 428, 493}

\* The flags of an invocation whose three paths are absolute, with log
\* directory d.
GoodArgs(d) == [project |-> ProjectDir, script |-> ScriptFile, logs |-> d]

\* One `deploy` invocation, task 1, whose paths all exist, with a writable
\* and empty log directory; the script has any of the modes.
InitModes ==
    /\ InitProcs({1})
    /\ args = [t \in Tasks |-> IF t = 1 THEN GoodArgs(LogDirL) ELSE NoArgs]
    /\ fsExists = {ProjectDir, ScriptFile, LogDirL}
    /\ fsWritable = {LogDirL}
    /\ scriptMode \in Modes
    /\ inodes = << >>
    /\ disk = << >>
    /\ dirs = [d \in LogDirs |-> NoDir]

SpecModes == InitModes /\ [][Next]_vars

\* The same invocation, whose background process may die at any point.
SpecCrash == InitModes /\ [][NextCrash]_vars

\* Two tasks.  To keep the state space small nothing fails but the script:
\* every system call of both invocations succeeds, the script leaves no
\* process behind and writes to its standard output only.
Quiet ==
    \A t \in Tasks :
        /\ fgExit[t] # 1
        /\ bgPc[t] # "exit1"
        /\ execErr[t] \in {"none", "nil", "exit"}
        /\ bgEnv[t].chmod # "error"
        /\ ~cmd[t].orphan
        /\ \A s \in Streams : rd[t][s].failed = 0
        /\ cmd[t].wrote["STDOUT"] <= MaxLinesTwo
        /\ cmd[t].wrote["STDERR"] = 0

\* Both processes of task t have ended.
TaskOver(t) == fgPc[t] = "exited" /\ bgPc[t] \in {"done", "exit1"}

\* Two `deploy` invocations with log directories d1 and d2; all paths exist,
\* the log directories are writable and empty, the script is executable.
InitPair(d1, d2) ==
    /\ InitProcs({1, 2})
    /\ args = [t \in Tasks |-> IF t = 1 THEN GoodArgs(d1) ELSE GoodArgs(d2)]
    /\ fsExists = {ProjectDir, ScriptFile, LogDirL, LogDirM}
    /\ fsWritable = {LogDirL, LogDirM}
    /\ scriptMode = ExecMode
    /\ inodes = << >>
    /\ disk = << >>
    /\ dirs = [d \in LogDirs |-> NoDir]

\* Task 2 is invoked when task 1 is over.
Sequential == fgPc[2] # "validate" => TaskOver(1)

\* Two tasks given the same log directory run one after the other; two tasks
\* with log directories of their own run concurrently.
Paced == Quiet /\ (args[1].logs = args[2].logs => Sequential)

\* A step of task t (of its `deploy` process, its background process, its
\* script or a readAndLogOutput goroutine) in which nothing fails and which
\* keeps the order of the two tasks.
PairStep(t) ==
    \/ handleDeployValidate(t) /\ Paced'
    \/ handleDeployCreateTemp(t) /\ Paced'
    \/ handleDeployWrite(t) /\ Paced'
    \/ handleDeploySpawn(t) /\ Paced'
    \/ handleDeployFinish(t) /\ Paced'
    \/ handleInternalRunLoad(t) /\ Paced'
    \/ ExecOpen(t) /\ Paced'
    \/ ExecHeader(t) /\ Paced'
    \/ ExecChdir(t) /\ Paced'
    \/ ExecStat(t) /\ Paced'
    \/ ExecStart(t) /\ Paced'
    \/ ExecWait(t) /\ Paced'
    \/ ExecJoin(t) /\ Paced'
    \/ RunMark(t) /\ Paced'
    \/ RunRotate(t) /\ Paced'
    \/ RunRemove(t) /\ Paced'
    \/ (\E s \in Streams : ScriptWrite(t, s)) /\ Paced'
    \/ ScriptExit(t) /\ Paced'
    \/ (\E s \in Streams : readScan(t, s)) /\ Paced'
    \/ (\E s \in Streams : readWrite(t, s)) /\ Paced'

\* Two tasks, one after the other, with the same log directory.
InitSeq == InitPair(LogDirL, LogDirL)

NextSeq == \E t \in Tasks : PairStep(t)

SpecSeq == InitSeq /\ [][NextSeq]_vars

\* Two tasks with log directories of their own run concurrently.
InitTwo == InitPair(LogDirL, LogDirM)

NextTwo == \E t \in Tasks : PairStep(t)

SpecTwo == InitTwo /\ [][NextTwo]_vars

\* A step of task t in which nothing fails; the order of the two tasks'
\* steps is free.
SharedStep(t) ==
    \/ handleDeployValidate(t) /\ Quiet'
    \/ handleDeployCreateTemp(t) /\ Quiet'
    \/ handleDeployWrite(t) /\ Quiet'
    \/ handleDeploySpawn(t) /\ Quiet'
    \/ handleDeployFinish(t) /\ Quiet'
    \/ handleInternalRunLoad(t) /\ Quiet'
    \/ ExecOpen(t) /\ Quiet'
    \/ ExecHeader(t) /\ Quiet'
    \/ ExecChdir(t) /\ Quiet'
    \/ ExecStat(t) /\ Quiet'
    \/ ExecStart(t) /\ Quiet'
    \/ ExecWait(t) /\ Quiet'
    \/ ExecJoin(t) /\ Quiet'
    \/ RunMark(t) /\ Quiet'
    \/ RunRotate(t) /\ Quiet'
    \/ RunRemove(t) /\ Quiet'
    \/ (\E s \in Streams : ScriptWrite(t, s)) /\ Quiet'
    \/ ScriptExit(t) /\ Quiet'
    \/ (\E s \in Streams : readScan(t, s)) /\ Quiet'
    \/ (\E s \in Streams : readWrite(t, s)) /\ Quiet'

\* Two tasks with the same log directory run concurrently.
InitShared == InitPair(LogDirL, LogDirL)

NextShared == \E t \in Tasks : SharedStep(t)

SpecShared == InitShared /\ [][NextShared]_vars

\* The server as main starts it (the watcher goroutine is about to call
\* watcher.Add), the queue directory empty, and one request with any fields,
\* which may come at any time; the project directory and the script exist,
\* the log directory may be named by a relative path.
InitQueue ==
    /\ InitState({1}, [pc |-> "add", events |-> << >>])
    /\ \E a \in ArgRecs : args = [t \in Tasks |-> IF t = 1 THEN a ELSE NoArgs]
    /\ \E logdirs \in SUBSET {LogDirL, LogDirRel} :
         /\ fsExists = {ProjectDir, ScriptFile} \cup logdirs
         /\ fsWritable \in {{}, logdirs}
    /\ scriptMode = ExecMode
    /\ inodes = << >>
    /\ disk = << >>
    /\ dirs = [d \in LogDirs |-> NoDir]

\* A step of the handler of request t, or of goroutine t or its script, in
\* which nothing of the environment fails.
QueueStep(t) ==
    \/ handleDeployRequest(t) /\ Quiet'
    \/ writeTaskToFileCreate(t) /\ Quiet'
    \/ writeTaskToFileWrite(t) /\ Quiet'
    \/ startFileWatcher(t) /\ Quiet'
    \/ processDeploymentTaskLoad(t) /\ Quiet'
    \/ ExecOpen(t) /\ Quiet'
    \/ ExecHeader(t) /\ Quiet'
    \/ ExecChdir(t) /\ Quiet'
    \/ ExecStat(t) /\ Quiet'
    \/ ExecStart(t) /\ Quiet'
    \/ ExecWait(t) /\ Quiet'
    \/ ExecJoin(t) /\ Quiet'
    \/ processWriteLog(t) /\ Quiet'
    \/ processRotateLog(t) /\ Quiet'
    \/ processRemove(t) /\ Quiet'
    \/ (\E s \in Streams : ScriptWrite(t, s)) /\ Quiet'
    \/ ScriptExit(t) /\ Quiet'
    \/ (\E s \in Streams : readScan(t, s)) /\ Quiet'
    \/ (\E s \in Streams : readWrite(t, s)) /\ Quiet'

NextQueue ==
    \/ watcherAdd
    \/ processExistingFiles
    \/ \E t \in Tasks : QueueStep(t)

SpecQueue == InitQueue /\ [][NextQueue]_vars

\* `internal-run --taskFile f` started from the command line (main.go 29-31)
\* with a file of any content: a complete task record, a part of one, or no
\* file at all.  All paths of the record are fine.
InitRun ==
    /\ watcher = NoWatcher
    /\ fgPc = [t \in Tasks |-> "absent"]
    /\ fgExit = [t \in Tasks |-> -1]
    /\ fgMsg = [t \in Tasks |-> << >>]
    /\ fgEnv = [t \in Tasks |-> [step \in {"validate", "createtemp", "write", "spawn"} |-> "pending"]]
    /\ \E n \in {0, 2, 4}, there \in BOOLEAN :
         tmp = [t \in Tasks |->
                  IF t = 1
                  THEN [exists |-> there,
                        data |-> SubSeq(Marshal(DeploymentTask(ProjectDir, ScriptFile, LogDirL, 1)), 1, n)]
                  ELSE [exists |-> FALSE, data |-> << >>]]
    /\ tmpLog = [t \in Tasks |-> << >>]
    /\ bgPc = [t \in Tasks |-> IF t = 1 THEN "read" ELSE "none"]
    /\ bgMsg = [t \in Tasks |-> << >>]
    /\ task = [t \in Tasks |-> NoTask]
    /\ taskFile = [t \in Tasks |-> IF t = 1 THEN 1 ELSE 0]
    /\ bgEnv = [t \in Tasks |-> NoBgEnv]
    /\ execErr = [t \in Tasks |-> "none"]
    /\ handle = [t \in Tasks |-> NoHandle]
    /\ logIno = [t \in Tasks |-> NoIno]
    /\ cmd = [t \in Tasks |-> [state |-> "none", status |-> 0, wrote |-> NoLines,
                                orphan |-> FALSE, starts |-> 0]]
    /\ pipe = [t \in Tasks |-> [s \in Streams |-> [buf |-> << >>, closed |-> FALSE]]]
    /\ rd = [t \in Tasks |-> [s \in Streams |-> [pc |-> "idle", line |-> 0, failed |-> 0]]]
    /\ now = 0
    /\ args = [t \in Tasks |-> NoArgs]
    /\ fsExists = {ProjectDir, ScriptFile, LogDirL}
    /\ fsWritable = {LogDirL}
    /\ scriptMode = ExecMode
    /\ inodes = << >>
    /\ disk = << >>
    /\ dirs = [d \in LogDirs |-> NoDir]

NextRun ==
    \E t \in Tasks :
        \/ handleInternalRun(t)
        \/ \E s \in Streams : ScriptWrite(t, s)
        \/ ScriptExit(t)
        \/ DescendantExit(t)
        \/ \E s \in Streams : readAndLogOutput(t, s)

SpecRun == InitRun /\ [][NextRun]_vars

\* One `deploy` invocation with good paths and an executable script.
InitBg ==
    /\ InitProcs({1})
    /\ args = [t \in Tasks |-> IF t = 1 THEN GoodArgs(LogDirL) ELSE NoArgs]
    /\ fsExists = {ProjectDir, ScriptFile, LogDirL}
    /\ fsWritable = {LogDirL}
    /\ scriptMode = ExecMode
    /\ inodes = << >>
    /\ disk = << >>
    /\ dirs = [d \in LogDirs |-> NoDir]

\* The script may write lines of any length.
NextLong ==
    \/ Next
    \/ \E t \in Tasks : \E s \in Streams : ScriptWriteLong(t, s)

SpecLong == InitBg /\ [][NextLong]_vars

\* That invocation with its scheduling: the background process and its two
\* reader goroutines go on running when they can; nothing is assumed of the
\* script or of the processes it started.
SpecBg ==
    /\ InitBg
    /\ [][NextLong]_vars
    /\ \A t \in Tasks : WF_vars(handleInternalRun(t))
    /\ \A t \in Tasks : \A s \in Streams : WF_vars(readAndLogOutput(t, s))

\* A project directory and a script whose names hold a byte that is not
\* valid UTF-8.
ProjectDirRaw == <<"/", "p", BadByte>>
ScriptFileRaw == <<"/", "s", BadByte>>

\* One `deploy` invocation whose paths exist; the names of the project
\* directory and of the script hold any bytes.  The paths with U+FFFD in the
\* place of such a byte may exist too.
InitBytes ==
    /\ InitProcs({1})
    /\ \E p \in {ProjectDir, ProjectDirRaw}, s \in {ScriptFile, ScriptFileRaw} :
         /\ args = [t \in Tasks |-> IF t = 1 THEN [project |-> p, script |-> s, logs |-> LogDirL]
                                               ELSE NoArgs]
         /\ \E others \in SUBSET {JsonString(ProjectDirRaw), JsonString(ScriptFileRaw)} :
              fsExists = {p, s, LogDirL} \cup others
    /\ fsWritable = {LogDirL}
    /\ scriptMode = ExecMode
    /\ inodes = << >>
    /\ disk = << >>
    /\ dirs = [d \in LogDirs |-> NoDir]

SpecBytes == InitBytes /\ [][Next]_vars

\* ===================================================================== claims

\* The log file of task t: the file ExecuteDeployment opened as deployment.log
\* (it keeps its content when RotateLog renames it).
TaskLog(t) == IF logIno[t] = NoIno THEN << >> ELSE inodes[logIno[t]]

\* The places of log at which task t wrote an entry with this tag.
Places(log, tag, t) == {i \in 1..Len(log) : log[i].tag = tag /\ log[i].task = t}

Has(log, tag, t) == Places(log, tag, t) # {}

\* ExecuteDeployment ran the script of task t and has returned.
ScriptRan(t) == execErr[t] \in {"nil", "exit"}

Invoked(t) == fgPc[t] # "absent"

\* The three paths of task t exist and its log directory is writable.
PathsFine(t) ==
    /\ {args[t].project, args[t].script, args[t].logs} \subseteq fsExists
    /\ args[t].logs \in fsWritable

\* C1: once ExecuteDeployment has returned after running the script, every
\* line the script wrote to stdout or stderr is in the task's log exactly
\* once, with the tag of its stream (the paths being fine and no write to the
\* log having failed).
C1_EveryLineLoggedOnce ==
    \A t \in Tasks :
        (ScriptRan(t) /\ PathsFine(t) /\ \A s \in Streams : rd[t][s].failed = 0) =>
            \A s \in Streams : \A k \in 1..cmd[t].wrote[s] :
                Cardinality({i \in Places(TaskLog(t), s, t) : TaskLog(t)[i].n = k}) = 1

\* The stream-s entries of task t in log, in the order they lie in the file.
StreamEntries(log, s, t) == SelectSeq(log, LAMBDA e : e.tag = s /\ e.task = t)

\* C2: in a task's log the [STDOUT] entries lie in the order the script wrote
\* those lines (line k before line k+1), and so do the [STDERR] entries, in
\* every state of every interleaving of the two readers; each is a line the
\* script did write to that stream.
C2_PerStreamOrder ==
    \A t \in Tasks : \A s \in Streams :
        LET q == StreamEntries(TaskLog(t), s, t) IN
        /\ \A i \in 1..Len(q) : q[i].n \in 1..cmd[t].wrote[s]
        /\ \A i \in 1..(Len(q) - 1) : q[i].n < q[i + 1].n

\* C2's case: both streams carried two lines, all four are logged, and the
\* two streams are interleaved in the file.
C2_Witness ==
    LET log == TaskLog(1)
        out == Places(log, "STDOUT", 1)
        err == Places(log, "STDERR", 1)
    IN /\ ScriptRan(1)
       /\ Cardinality(out) = 2 /\ Cardinality(err) = 2
       /\ \E i \in out, j \in err, k \in out : i < j /\ j < k

SomePathNotAbsolute(t) ==
    ~IsAbs(args[t].project) \/ ~IsAbs(args[t].script) \/ ~IsAbs(args[t].logs)

\* Nothing was persisted or started for task t.
NothingCreated(t) == tmpLog[t] = << >> /\ ~tmp[t].exists /\ bgPc[t] = "none"

\* C4: a `deploy` invocation with a path that is not absolute never gets past
\* validation: no task file is created, no background process is started, and
\* when it has ended its exit status is 1.
C4_NonAbsoluteRejected ==
    \A t \in Tasks :
        (Invoked(t) /\ SomePathNotAbsolute(t)) =>
            /\ NothingCreated(t)
            /\ fgPc[t] \in {"validate", "exited"}
            /\ fgPc[t] = "exited" => fgExit[t] = 1

\* C4's case: the project and the script are fine, the log path is relative.
C4_Witness ==
    /\ fgPc[1] = "exited"
    /\ args[1].project = ProjectDir /\ ProjectDir \in fsExists
    /\ args[1].script = ScriptFile /\ ScriptFile \in fsExists
    /\ args[1].logs = <<"l">>
    /\ fgMsg[1] = << <<"log path must be absolute", 0>> >>

\* C5: a `deploy` invocation whose log directory exists but is not writable
\* fails in validation: no task file, no background process, exit status 1.
C5_UnwritableLogDirRejected ==
    \A t \in Tasks :
        (Invoked(t) /\ args[t].logs \in fsExists /\ args[t].logs \notin fsWritable) =>
            /\ NothingCreated(t)
            /\ fgPc[t] = "exited" => fgExit[t] = 1

\* C6: ValidatePaths returns nil only when the project path, the script path
\* and the log directory all exist.
C6_NilOnlyIfAllExist ==
    \A t \in Tasks :
        fgEnv[t].validate = "nil" =>
            {args[t].project, args[t].script, args[t].logs} \subseteq fsExists

\* C7: the task's log holds the success marker only if the script exited with
\* status 0; once the background invocation of a task whose script ran is
\* done, the log holds the start marker, holds the success marker and no
\* error entry if the status was 0, holds an error entry carrying the status
\* and no success marker otherwise, and the task file is gone.
C7_OutcomeMarkers ==
    \A t \in Tasks :
        LET log == TaskLog(t)
            errs == Places(log, "ERROR", t) \cup Places(log, "FAILED", t)
        IN /\ Has(log, "SUCCESS", t) => (ScriptRan(t) /\ cmd[t].status = 0)
           /\ ~(Has(log, "SUCCESS", t) /\ errs # {})
           /\ (bgPc[t] = "done" /\ cmd[t].state = "exited") =>
                /\ Has(log, "STARTED", t)
                /\ cmd[t].status = 0 => Has(log, "SUCCESS", t)
                /\ cmd[t].status # 0 =>
                     /\ \E i \in Places(log, "ERROR", t) :
                            log[i].why = "exit" /\ log[i].n = cmd[t].status
                     /\ \E i \in Places(log, "FAILED", t) :
                            log[i].why = "exit" /\ log[i].n = cmd[t].status
                /\ ~tmp[t].exists

\* C7's case: the script exited with status 1 and the task is done.
C7_Witness ==
    /\ bgPc[1] = "done"
    /\ cmd[1].state = "exited" /\ cmd[1].status = 1
    /\ Has(TaskLog(1), "FAILED", 1)

FgSteps == {"validate", "createtemp", "write", "spawn"}

\* C8: handleDeploy exits with status 0 exactly when validation, the creation
\* and the write of the task file, and the start of the background process
\* all succeeded; when one of them failed it has exited with status 1 and
\* printed one message; this holds in every state, whatever the script did.
C8_ForegroundExitStatus ==
    \A t \in Tasks :
        /\ fgExit[t] = 0 <=> (fgPc[t] = "exited" /\ \A st \in FgSteps : fgEnv[t][st] = "nil")
        /\ (\E st \in FgSteps : fgEnv[t][st] \notin {"nil", "pending"}) =>
              (fgPc[t] = "exited" /\ fgExit[t] = 1 /\ Len(fgMsg[t]) = 1)
        /\ fgExit[t] = 1 => bgPc[t] = "none"

\* C8's case: the foreground exited with 0 and the script then failed.
C8_Witness ==
    /\ fgExit[1] = 0
    /\ bgPc[1] = "done"
    /\ cmd[1].state = "exited" /\ cmd[1].status = 1

\* C9: once the background process is started, handleDeploy prints the
\* confirmation with the task id and exits with status 0, whether or not the
\* script (or the background process) ever ends.
C9_ForegroundTerminates ==
    \A t \in Tasks :
        (fgPc[t] = "print") ~>
            (fgExit[t] = 0 /\ fgMsg[t] = << <<"Deployment started in background for task", t>> >>)

\* C9's case: the foreground has exited while the script is still running.
C9_Witness ==
    /\ fgExit[1] = 0
    /\ cmd[1].state = "running"
    /\ fgMsg[1] = << <<"Deployment started in background for task", 1>> >>

\* The files of log directory d.
DirFiles(d) ==
    IF d \notin LogDirs THEN {}
    ELSE ({dirs[d].active} \cup {dirs[d].rotated[ts] : ts \in 0..MaxClock}) \ {NoIno}

\* The background invocation of task t has failed.
BgFailed(t) == bgPc[t] = "exit1" \/ execErr[t] \notin {"none", "nil"}

\* C10 as claimed: when the background invocation has ended after a failure
\* (the task file unreadable, the log not to be opened, and so on), a file of
\* the task's log directory holds an error entry of the task (the paths
\* being fine).
C10_EveryFailureLogged ==
    \A t \in Tasks :
        (bgPc[t] \in {"exit1", "done"} /\ BgFailed(t) /\ PathsFine(t)) =>
            \E i \in DirFiles(args[t].logs) :
                Has(inodes[i], "ERROR", t) \/ Has(inodes[i], "FAILED", t)

ExecLoggedErrors == {"chdir", "stat", "stdoutpipe", "stderrpipe", "start", "exit"}

\* C10, amended: an error ExecuteDeployment returns after it has opened the
\* log (chdir, script not found, pipes or script not startable, non-zero
\* exit) is in the task's log as an [ERROR] entry naming it, and, once
\* WriteLog has run, as a "Deployment failed" entry too.
C10_ExecFailuresLogged ==
    \A t \in Tasks :
        execErr[t] \in ExecLoggedErrors =>
            /\ \E i \in Places(TaskLog(t), "ERROR", t) : TaskLog(t)[i].why = execErr[t]
            /\ bgPc[t] \in {"rotate", "remove", "done"} =>
                 \E i \in Places(TaskLog(t), "FAILED", t) : TaskLog(t)[i].why = execErr[t]

\* C10's case: the script could not be started, and the task is done.
C10_Witness ==
    /\ bgPc[1] = "done"
    /\ execErr[1] = "start"
    /\ \E i \in Places(TaskLog(1), "ERROR", 1) : TaskLog(1)[i].why = "start"

\* The steps of handleInternalRun after ExecuteDeployment has returned.
TerminalSteps == {"mark", "rotate", "remove", "done"}

\* The log of task t holds an [ERROR] entry naming the failure why.
ErrorLogged(t, why) == \E i \in Places(TaskLog(t), "ERROR", t) : TaskLog(t)[i].why = why

\* C11: the script of a task is started at most once: once ExecuteDeployment
\* has returned an error (project directory, script not found, script not
\* startable, non-zero exit) no script process of the task runs or is
\* started any more, and the background invocation is at one of its last
\* steps (outcome marker, rotation, removal of the task file, end).
C11_ScriptStartedAtMostOnce ==
    \A t \in Tasks :
        /\ cmd[t].starts <= 1
        /\ execErr[t] \in {"chdir", "stat", "stdoutpipe", "stderrpipe", "start"} =>
               (cmd[t].starts = 0 /\ cmd[t].state = "none")
        /\ execErr[t] = "exit" => (cmd[t].starts = 1 /\ cmd[t].state = "exited")
        /\ execErr[t] # "none" => bgPc[t] \in TerminalSteps
        /\ ErrorLogged(t, "exit") => execErr[t] = "exit"

\* C11's case: the script ran once and failed, and the task is over.
C11_Witness ==
    /\ execErr[1] = "exit"
    /\ cmd[1].starts = 1
    /\ bgPc[1] = "done"

C17_EarlyFailureHandled ==
    \A t \in Tasks : \A why \in {"chdir", "stat", "start"} :
        (ErrorLogged(t, why) \/ execErr[t] = why) =>
            /\ ErrorLogged(t, why)
            /\ execErr[t] = why
            /\ cmd[t].state = "none" /\ cmd[t].starts = 0
            /\ bgPc[t] \in TerminalSteps
            /\ bgPc[t] \in {"remove", "done"} => bgEnv[t].rot # "none"
            /\ bgPc[t] = "done" =>
                 (~tmp[t].exists /\ tmpLog[t][Len(tmpLog[t])] = "remove:handleInternalRun")

\* C17's case: the project directory could not be entered; the log was
\* rotated and the task file removed.
C17_Witness ==
    /\ bgPc[1] = "done"
    /\ execErr[1] = "chdir"
    /\ ErrorLogged(1, "chdir")
    /\ bgEnv[1].rot = "renamed"
    /\ ~tmp[1].exists

\* C20 as claimed: when the os.Rename of RotateLog has failed, a file of the
\* log directory holds a warning of the task about the rotation, the outcome
\* marker is still in the log and, at the end, the task file is removed.
C20_RenameFailureWarned ==
    \A t \in Tasks :
        bgEnv[t].rot = "error" =>
            /\ \E i \in DirFiles(task[t].LogPath) :
                 \E k \in Places(inodes[i], "WARNING", t) : inodes[i][k].why = "rotate"
            /\ \E i \in DirFiles(task[t].LogPath) :
                 Has(inodes[i], "FAILED", t) \/ Has(inodes[i], "SUCCESS", t)
            /\ bgPc[t] = "done" => ~tmp[t].exists


\* No execute bit (owner, group, others) is set in mode.
NoExecuteBit(mode) == \A b \in {1, 8, 64} : (mode \div b) % 2 = 0

\* C18: once os.Stat of the script has succeeded, os.Chmod has been called
\* exactly when the mode had none of its three execute bits; and when
\* os.Chmod failed the log holds a [WARNING] entry, ExecuteDeployment has not
\* returned for it and goes on to start the script.
C18_ChmodIffNotExecutable ==
    \A t \in Tasks :
        bgEnv[t].mode # -1 =>
            /\ bgEnv[t].chmod # "none" <=> NoExecuteBit(bgEnv[t].mode)
            /\ bgEnv[t].chmod = "error" =>
                 /\ \E k \in Places(TaskLog(t), "WARNING", t) : TaskLog(t)[k].why = "chmod"
                 /\ execErr[t] \notin {"chdir", "stat"}
                 /\ bgPc[t] \notin {"chdir", "stat"}
                 /\ bgPc[t] \in TerminalSteps => execErr[t] \in {"stdoutpipe", "stderrpipe", "start", "exit", "nil"}

\* C18's case: os.Chmod failed on a script of mode 0644, the warning was
\* written and the script was run to its end.
C18_Witness ==
    /\ bgEnv[1].mode = 420
    /\ bgEnv[1].chmod = "error"
    /\ \E k \in Places(TaskLog(1), "WARNING", 1) : TaskLog(1)[k].why = "chmod"
    /\ cmd[1].starts = 1
    /\ execErr[1] = "nil"

\* C19 as claimed: after a successful os.Chmod the mode of the script is the
\* mode it had with the owner's execute bit added and nothing else changed.
C19_OnlyOwnerExecuteAdded ==
    \A t \in Tasks :
        bgEnv[t].chmod = "nil" => scriptMode = bgEnv[t].mode + 64


\* C15: every entry a task has written to a log file (header, stream line,
\* warning, error, completion, outcome marker) is on stable storage, at the
\* same place of the file, as soon as the step that wrote it is over: a
\* crash of the background process at any later point loses none of them.
C15_ReturnedWritesOnDisk ==
    \A i \in 1..Len(inodes) : \A k \in 1..Len(inodes[i]) :
        inodes[i][k].task \in Tasks =>
            (k <= Len(disk[i]) /\ disk[i][k] = inodes[i][k])

\* C15's case: the background process died while the script was running,
\* after a line of the script had been written to the log; the line is on
\* stable storage.
C15_Witness ==
    /\ bgPc[1] = "crashed"
    /\ cmd[1].state = "running"
    /\ logIno[1] # NoIno
    /\ Has(disk[logIno[1]], "STDOUT", 1)
    /\ Has(disk[logIno[1]], "TASKID", 1)


\* The rotated files of log directory d.
RotatedFiles(d) == {dirs[d].rotated[ts] : ts \in 0..MaxClock} \ {NoIno}

\* C12: a RotateLog that renames deployment.log leaves no deployment.log,
\* leaves the file it was under exactly one rotated name, and changes no
\* file's content and makes no new file; and the log of a task invoked after
\* such a rotation is another file than the rotated one, is the
\* deployment.log of the directory while there is one, and holds entries of
\* that task only.
C12_RotateThenFreshLog ==
    [][/\ \A t \in Tasks :
            (bgPc[t] = "rotate" /\ bgPc'[t] = "remove" /\ bgEnv'[t].rot = "renamed") =>
                LET d == task[t].LogPath
                    old == dirs[d].active
                IN /\ old # NoIno
                   /\ dirs'[d].active = NoIno
                   /\ Cardinality({ts \in 0..MaxClock : dirs'[d].rotated[ts] = old}) = 1
                   /\ inodes' = inodes
       /\ (bgEnv[1].rot = "renamed" /\ logIno[2] # NoIno) =>
            /\ logIno[2] # logIno[1]
            /\ ActiveLog(LogDirL) \in {NoIno, logIno[2]}
            /\ \A k \in 1..Len(inodes[logIno[2]]) : inodes[logIno[2]][k].task = 2]_vars

\* C12's case: task 1's log was rotated, task 2 ran afterwards in the same
\* directory and its log was rotated in a later second; both files are there.
C12_Witness ==
    /\ bgPc[1] = "done" /\ bgPc[2] = "done"
    /\ bgEnv[1].rot = "renamed" /\ bgEnv[2].rot = "renamed"
    /\ logIno[1] \in RotatedFiles(LogDirL)
    /\ logIno[2] \in RotatedFiles(LogDirL)
    /\ Has(inodes[logIno[2]], "SUCCESS", 2)
    /\ ActiveLog(LogDirL) = NoIno

\* C14 as claimed: a log directory holds as many rotated files as tasks
\* whose RotateLog renamed its deployment.log.
C14_OneRotatedFilePerTask ==
    \A d \in LogDirs :
        Cardinality(RotatedFiles(d)) =
            Cardinality({t \in Tasks : task[t].LogPath = d /\ bgEnv[t].rot = "renamed"})

\* The log of task t as the task alone writes it up to the outcome marker:
\* the four header entries, lines of the script in the order written, the
\* completion or error entry and the outcome marker, all of task t.
SoloLog(log, t) ==
    /\ Len(log) >= 6
    /\ \A k \in 1..Len(log) : log[k].task = t
    /\ <<log[1].tag, log[2].tag, log[3].tag, log[4].tag>> = <<"STARTED", "PROJECT", "SCRIPT", "TASKID">>
    /\ \A k \in 5..(Len(log) - 2) : log[k].tag \in Streams
    /\ \A k \in 5..(Len(log) - 3) : log[k].n < log[k + 1].n
    /\ <<log[Len(log) - 1].tag, log[Len(log)].tag>> \in
           {<<"COMPLETED", "SUCCESS">>, <<"ERROR", "FAILED">>}

\* C16: of two concurrent tasks with log directories of their own, the files
\* of a task's directory hold entries of that task only, the task's log is
\* in its own directory and is, once the outcome marker is written, the log
\* the task alone writes; the two task files have different names, each
\* background process loads the task of its own invocation, a task file
\* exists until the background process of its task removes it, and is
\* removed once.
C16_DistinctDirsIndependent ==
    \A t \in Tasks :
        /\ \A i \in DirFiles(args[t].logs) : \A k \in 1..Len(inodes[i]) : inodes[i][k].task = t
        /\ logIno[t] # NoIno => logIno[t] \in DirFiles(args[t].logs)
        /\ bgPc[t] \in {"rotate", "remove", "done"} => SoloLog(TaskLog(t), t)
        /\ \A u \in Tasks \ {t} : taskFile[t] # 0 => taskFile[t] # taskFile[u]
        /\ task[t] # NoTask =>
             task[t] = DeploymentTask(args[t].project, args[t].script, args[t].logs, t)
        /\ (taskFile[t] # 0 /\ bgPc[t] # "done") => tmp[taskFile[t]].exists
        /\ bgPc[t] = "done" =>
             (/\ ~tmp[taskFile[t]].exists
              /\ tmpLog[taskFile[t]] = <<"create:handleDeploy", "remove:handleInternalRun">>)

\* C16's case: both tasks are done after running side by side, task 1's
\* script having failed and task 2's not.
C16_Witness ==
    /\ bgPc[1] = "done" /\ bgPc[2] = "done"
    /\ execErr[1] = "exit" /\ execErr[2] = "nil"
    /\ Has(TaskLog(1), "STDOUT", 1) /\ Has(TaskLog(2), "STDOUT", 2)
    /\ logIno[1] \in RotatedFiles(LogDirL)
    /\ logIno[2] \in RotatedFiles(LogDirM)


\* What the checks of the claim give for the flags a, in their order: each
\* path is absolute, then exists.
FirstFailingCheck(a) ==
    IF ~IsAbs(a.project) THEN "project path must be absolute"
    ELSE IF a.project \notin fsExists THEN "project path does not exist"
    ELSE IF ~IsAbs(a.script) THEN "deployment script path must be absolute"
    ELSE IF a.script \notin fsExists THEN "deployment script path does not exist"
    ELSE IF ~IsAbs(a.logs) THEN "log path must be absolute"
    ELSE IF a.logs \notin fsExists THEN "log path does not exist"
    ELSE "nil"

\* C21 as claimed: what ValidatePaths returns is the message of the first
\* check that fails, in the order project absolute, project exists, script
\* absolute, script exists, log absolute, log exists (nil when none fails);
\* the message names the path (project, deployment script, log) and the
\* reason, and is what the `deploy` process prints.
C21_FirstFailingCheckReported ==
    \A t \in Tasks :
        fgEnv[t].validate \notin {"pending", "flags"} =>
            /\ fgEnv[t].validate = FirstFailingCheck(args[t])
            /\ fgEnv[t].validate # "nil" => fgMsg[t] = << <<fgEnv[t].validate, 0>> >>

\* The places of the stream entries of task t in log.
StreamPlaces(log, t) == UNION {Places(log, s, t) : s \in Streams}

\* The places of the entry that ends ExecuteDeployment's part of the log of
\* task t: the completion entry, or the error entry for the exit status.
EndPlaces(log, t) ==
    Places(log, "COMPLETED", t) \cup {i \in Places(log, "ERROR", t) : log[i].why = "exit"}

\* C23: the completion entry or the exit error entry is in the log, and
\* ExecuteDeployment has returned after running the script, only when the
\* script has exited and both readAndLogOutput goroutines have ended; every
\* stream entry of the log lies after the four header entries and before the
\* completion or error entry; and no step after the return adds a stream
\* entry.
C23_StreamEntriesInsideWindow ==
    [][\A t \in Tasks :
         LET log == TaskLog(t) IN
         /\ (ScriptRan(t) \/ EndPlaces(log, t) # {}) =>
                /\ cmd[t].state = "exited"
                /\ \A s \in Streams : rd[t][s].pc = "done"
                /\ ScriptRan(t) /\ EndPlaces(log, t) # {}
         /\ \A k \in StreamPlaces(log, t) :
                /\ \A h \in Places(log, "STARTED", t) \cup Places(log, "TASKID", t) : h < k
                /\ Places(log, "TASKID", t) # {}
                /\ \A e \in EndPlaces(log, t) : k < e
         /\ ScriptRan(t) =>
                \A i \in 1..Len(inodes) :
                    /\ Len(inodes'[i]) >= Len(inodes[i])
                    /\ \A s \in Streams :
                         Cardinality(Places(inodes'[i], s, t)) = Cardinality(Places(inodes[i], s, t))]_vars

\* C23's case: both streams were logged, the script failed, and the error
\* entry lies after them.
C23_Witness ==
    /\ execErr[1] = "exit"
    /\ Has(TaskLog(1), "STDOUT", 1) /\ Has(TaskLog(1), "STDERR", 1)
    /\ \A k \in StreamPlaces(TaskLog(1), 1) : \A e \in EndPlaces(TaskLog(1), 1) : k < e
    /\ bgPc[1] = "done"

\* Sequence a is the beginning of sequence b.
IsPrefix(a, b) == Len(a) <= Len(b) /\ \A k \in 1..Len(a) : a[k] = b[k]

\* C24: for one task, ExecuteDeployment opens the log once; the open is the
\* only step that shortens a file, and it comes when no file holds an entry
\* of the task; from then on every step leaves what the task's log file
\* holds in place and only adds entries after it (header, stream lines,
\* completion entry, and the outcome marker of WriteLog, which goes to the
\* same file).
C24_TruncatedOnceThenAppended ==
    [][\A t \in Tasks :
         /\ bgPc[t] \notin {"none", "read", "open"} => bgPc'[t] # "open"
         /\ bgPc[t] = "open" =>
                \A i \in 1..Len(inodes) : \A k \in 1..Len(inodes[i]) : inodes[i][k].task # t
         /\ \A i \in 1..Len(inodes) :
                ~IsPrefix(inodes[i], inodes'[i]) =>
                    \E u \in Tasks : /\ bgPc[u] = "open" /\ bgPc'[u] = "header"
                                     /\ logIno'[u] = i /\ inodes'[i] = << >>
         /\ logIno[t] # NoIno => IsPrefix(inodes[logIno[t]], inodes'[logIno[t]])
         /\ (bgPc[t] = "mark" /\ bgPc'[t] = "rotate" /\ logIno[t] # NoIno
                 /\ CanOpen(task[t].LogPath)) =>
                /\ Len(inodes'[logIno[t]]) = Len(inodes[logIno[t]]) + 1
                /\ inodes'[logIno[t]][Len(inodes'[logIno[t]])].task = t]_vars

\* C24's case: a log left by an earlier deployment was truncated, and the
\* task's log now holds header, a stream line, the completion entry and the
\* outcome marker, in this order.
C24_Witness ==
    /\ bgPc[1] = "done"
    /\ logIno[1] = 1
    /\ ~Has(TaskLog(1), "OLD", 0)
    /\ Len(TaskLog(1)) = 7
    /\ <<TaskLog(1)[1].tag, TaskLog(1)[5].tag, TaskLog(1)[6].tag, TaskLog(1)[7].tag>> =
           <<"STARTED", "STDOUT", "COMPLETED", "SUCCESS">>

\* Some log file holds the outcome marker of task t.
MarkerWritten(t) ==
    \E i \in 1..Len(inodes) : Has(inodes[i], "SUCCESS", t) \/ Has(inodes[i], "FAILED", t)

\* The background process of task t has removed the task file.
TaskFileDeleted(t) ==
    \E k \in 1..Len(tmpLog[taskFile[t]]) : tmpLog[taskFile[t]][k] = "remove:handleInternalRun"

\* C25: the steps of one task come in this order: the task file is written
\* completely before the background process exists; the task is loaded from
\* it before the script is started; the script has ended before the outcome
\* marker is written; RotateLog is called after the WriteLog of the marker (a
\* file it renamed holds the marker); the task file is deleted after
\* RotateLog.  In particular the task file exists while the script runs.
C25_StepsInOrder ==
    \A t \in Tasks :
        /\ bgPc[t] # "none" =>
               /\ fgEnv[t].write = "nil"
               /\ tmp[taskFile[t]].data =
                      Marshal(DeploymentTask(args[t].project, args[t].script, args[t].logs, t))
               /\ (tmp[taskFile[t]].exists \/ bgPc[t] = "done")
        /\ bgPc[t] \in {"none", "read"} => task[t] = NoTask /\ cmd[t].state = "none"
        /\ cmd[t].state # "none" => task[t] = Unmarshal(tmp[taskFile[t]].data)
        /\ cmd[t].state = "running" =>
               /\ tmp[taskFile[t]].exists
               /\ ~MarkerWritten(t)
               /\ bgEnv[t].rot = "none"
        /\ MarkerWritten(t) => bgPc[t] \in {"rotate", "remove", "done"}
        /\ bgEnv[t].rot # "none" => bgPc[t] \in {"remove", "done"}
        /\ bgEnv[t].rot = "renamed" =>
               /\ MarkerWritten(t)
               /\ ActiveLog(task[t].LogPath) = NoIno
        /\ bgPc[t] # "none" /\ TaskFileDeleted(t) => bgPc[t] = "done" /\ bgEnv[t].rot # "none"

\* C25's case: the script ran, the marker was written, the log was renamed
\* and the task file deleted.
C25_Witness ==
    /\ bgPc[1] = "done"
    /\ cmd[1].state = "exited"
    /\ bgEnv[1].rot = "renamed"
    /\ TaskFileDeleted(1)
    /\ \E ts \in 0..MaxClock :
         /\ dirs[LogDirL].rotated[ts] # NoIno
         /\ Has(inodes[dirs[LogDirL].rotated[ts]], "SUCCESS", 1)

\* The number of entries of stream s that task t has on stable storage.
Flushed(t, s) ==
    IF logIno[t] = NoIno THEN 0 ELSE Cardinality(Places(disk[logIno[t]], s, t))

\* The number of lines the reader of stream s has taken from the pipe.
LinesRead(t, s) == cmd[t].wrote[s] - Len(pipe[t][s].buf)

\* C27: a reader holds at most one line: every line it has taken from the
\* pipe is on stable storage (or its write failed and was reported), but for
\* the one line it is about to write; and the reader never waits for the
\* script: with a line in the open pipe its Scan can return, and with a line
\* in hand its write can be done, whether the script has exited or not.
C27_LinesForwardedAsRead ==
    \A t \in Tasks : \A s \in Streams :
        /\ LinesRead(t, s) - Flushed(t, s) - rd[t][s].failed =
               (IF rd[t][s].pc = "write" THEN 1 ELSE 0)
        /\ rd[t][s].pc = "write" => rd[t][s].line = LinesRead(t, s)
        /\ (rd[t][s].pc = "scan" /\ pipe[t][s].buf # << >> /\ ~pipe[t][s].closed) =>
               ENABLED readScan(t, s)
        /\ rd[t][s].pc = "write" => ENABLED readWrite(t, s)

\* C27's case: the script is still running and can emit more, and a line it
\* has emitted is in the log on stable storage.
C27_Witness ==
    /\ cmd[1].state = "running"
    /\ bgPc[1] = "wait"
    /\ cmd[1].wrote["STDOUT"] < MaxLines
    /\ Flushed(1, "STDOUT") = 1

\* C28: while the script of a task runs, ExecuteDeployment stays in cmd.Wait:
\* no outcome marker is written, RotateLog is not called and the task file is
\* there; the step that ends the run is the script's own exit, in which the
\* background process does nothing (no timeout, no kill), and any other step
\* leaves the task running and waiting.
C28_RunningScriptNeverStopped ==
    [][\A t \in Tasks :
         cmd[t].state = "running" =>
             /\ bgPc[t] = "wait"
             /\ ~MarkerWritten(t)
             /\ bgEnv[t].rot = "none"
             /\ tmp[taskFile[t]].exists
             /\ execErr[t] = "none"
             /\ ~ENABLED ExecWait(t)
             /\ IF cmd'[t].state = "running"
                THEN bgPc'[t] = "wait" /\ ~MarkerWritten(t)' /\ tmp'[taskFile[t]].exists
                ELSE /\ cmd'[t].state = "exited"
                     /\ UNCHANGED <<bgVars, pipe, rd, fsVars, tmpVars, fgVars>>]_vars

\* C28's case: the script runs and has nothing more to say, the readers wait
\* for input and the foreground command has returned: only the script's
\* exit lets the task go on.
C28_Witness ==
    /\ cmd[1].state = "running"
    /\ fgPc[1] = "exited"
    /\ \A s \in Streams :
         /\ cmd[1].wrote[s] = MaxLines
         /\ pipe[1][s].buf = << >>
         /\ rd[1][s].pc = "scan"
    /\ ~ENABLED handleInternalRun(1)

\* Some log file holds an entry left by a deployment that ran before.
OldEntryKept == \E i \in 1..Len(inodes) : Has(inodes[i], "OLD", 0)

\* C29: entries that an earlier task left in the active deployment.log (it
\* never rotated the log) are kept in some log file by every step of the next
\* task for that log directory.
C29_OldEntriesPreserved ==
    [][OldEntryKept => OldEntryKept']_vars

\* Task t has an entry with this tag in some log file.
InSomeFile(tag, t) == \E i \in 1..Len(inodes) : Has(inodes[i], tag, t)

\* Task t holds deployment.log open and has more to write to it.
StillWriting(t) == handle[t] # NoHandle /\ bgPc[t] \in {"header", "chdir", "stat", "start", "wait", "wgwait"}

\* C26: two tasks with the same log directory are not serialized: whatever
\* the other task is doing, a task about to open deployment.log can open
\* (and truncate) it, and a task about to rotate it can rename it; in
\* particular both are possible while the other task is still writing.
C26_SameDirNotSerialized ==
    \A t \in Tasks :
        /\ bgPc[t] = "open" => ENABLED ExecOpen(t)
        /\ bgPc[t] = "rotate" => ENABLED RunRotate(t)
        /\ bgPc[t] = "mark" => ENABLED RunMark(t)

\* C26's case: task 2 truncated deployment.log while task 1 was writing to
\* it: at the end the header of task 1 is in no log file, and a file holds
\* entries of both tasks.
C26_Witness ==
    /\ TaskOver(1) /\ TaskOver(2)
    /\ logIno[1] = logIno[2]
    /\ ~InSomeFile("STARTED", 1)
    /\ \E i \in 1..Len(inodes) : Has(inodes[i], "STDOUT", 1) /\ Has(inodes[i], "STARTED", 2)

\* The other case of C26: task 1's RotateLog renamed deployment.log while
\* task 2 was writing to it: the rotated file holds entries of both tasks and
\* the outcome marker of task 2 is alone in a deployment.log of its own.
C26_RenamedWhileWriting ==
    /\ bgEnv[1].rot = "renamed"
    /\ StillWriting(2)
    /\ logIno[1] = logIno[2]
    /\ ActiveLog(LogDirL) = NoIno

\* The handler of request t has decoded the body and called validatePaths.
Validated(t) == fgEnv[t].validate \notin {"pending", "method", "json"}

\* C22: the HTTP handler accepts a request only if its three paths are
\* absolute: a decoded request with a path that is not absolute gets the
\* status 400 at validatePaths, and no queue file is made for it.
C22_NonAbsoluteRejected ==
    \A t \in Tasks :
        (Validated(t) /\ SomePathNotAbsolute(t)) =>
            /\ fgEnv[t].validate # "nil"
            /\ fgExit[t] = 400
            /\ tmpLog[TaskFileName(t)] = << >>

\* The goroutine of task t printed this message.
Logged(t, msg) == \E k \in 1..Len(bgMsg[t]) : bgMsg[t][k] = msg

\* C30: processDeploymentTask has the content of a queue file only when
\* writeTaskToFile has returned (the os.ReadFile that went through came after
\* the write), and no task whose request was answered "queued" is given up
\* because its file could not be parsed.
C30_ReadsCompleteTaskFile ==
    \A t \in Tasks :
        /\ (bgPc[t] \notin {"none", "read"} /\ ~Logged(t, "Failed to read task file")) =>
               fgEnv[taskFile[t]].write # "pending"
        /\ (bgPc[t] = "dropped" /\ Logged(t, "Failed to unmarshal task file")) =>
               fgExit[taskFile[t]] # 200

\* A request answered "queued" whose task was given up at json.Unmarshal: the
\* queue file was read between its creation and the write.
C30_QueuedTaskDropped ==
    \A t \in Tasks :
        (bgPc[t] = "dropped" /\ Logged(t, "Failed to unmarshal task file")) =>
            fgExit[taskFile[t]] # 200

\* C33: a `deploy` invocation that has exited with a status other than 0 has
\* left no task file in the temporary directory.
C33_FailedDeployLeavesNoTaskFile ==
    \A t \in Tasks :
        (fgPc[t] = "exited" /\ fgExit[t] # 0) => ~tmp[TempName(t)].exists

\* C34: when handleInternalRun has ended, on whatever path, its task file is
\* not there any more.
C34_TaskFileDeletedOnEveryPath ==
    \A t \in Tasks :
        bgPc[t] \in {"done", "exit1"} => ~tmp[taskFile[t]].exists

\* The case C34 names: the content of the task file was not a task record.
UnparsedTaskFileDeleted ==
    \A t \in Tasks :
        (bgPc[t] = "exit1" /\ Logged(t, "Failed to unmarshal task")) => ~tmp[taskFile[t]].exists

\* The background invocation of task t has come to its end in full.
BackgroundOver(t) ==
    /\ bgPc[t] = "done"
    /\ \A s \in Streams : rd[t][s].pc = "done"
    /\ MarkerWritten(t)
    /\ bgEnv[t].rot # "none"
    /\ ~tmp[taskFile[t]].exists

\* C32: once the script process of a task has exited, the background
\* invocation comes to its end: both readers finish, the outcome marker is
\* written, RotateLog is called and the task file removed; this needs
\* nothing of a descendant of the script that holds the pipes.
C32_ScriptExitEndsBackground ==
    \A t \in Tasks : (cmd[t].state = "exited") ~> BackgroundOver(t)

\* C32's case: the background invocation is over and a descendant of the
\* script still holds the write ends of the pipes.
C32_Witness ==
    /\ BackgroundOver(1)
    /\ cmd[1].state = "exited"
    /\ cmd[1].orphan

\* C36: a reader that has returned while cmd.Wait has not (so that nothing
\* but the reader itself can have closed the pipe) has seen the end of its
\* stream: no line is left in the pipe and no process can write one.
C36_ReaderStopsAtEndOfFileOnly ==
    \A t \in Tasks : \A s \in Streams :
        (bgPc[t] = "wait" /\ rd[t][s].pc = "done") =>
            (pipe[t][s].buf = << >> /\ WriteEndClosed(t))

\* The other half of C36: a failed write to the log does not end a reader.
FailedWriteKeepsReader ==
    [][\A t \in Tasks : \A s \in Streams :
         rd'[t][s].failed # rd[t][s].failed => rd'[t][s].pc = "scan" /\ UNCHANGED pipe]_vars

\* C35: the task record the background process executes is, field for
\* field, the record handleDeploy made from the validated arguments, and the
\* task file was written in full before the process was started.
C35_ExecutedRecordEqualsCreated ==
    \A t \in Tasks :
        bgPc[t] \notin {"none", "read", "exit1"} =>
            /\ task[t] = DeploymentTask(args[t].project, args[t].script, args[t].logs, t)
            /\ fgEnv[t].write = "nil"

\* The second half of C35 alone: what the background process loaded is what
\* the complete task file holds.
LoadedWhatWasWritten ==
    \A t \in Tasks :
        bgPc[t] \notin {"none", "read", "exit1"} =>
            /\ fgEnv[t].write = "nil"
            /\ task[t] = Unmarshal(Marshal(DeploymentTask(args[t].project, args[t].script, args[t].logs, t)))

\* The goroutines that were started for queue file f and got as far as
\* starting the script.
Executions(f) == {g \in Tasks : taskFile[g] = f /\ bgPc[g] # "none" /\ cmd[g].starts > 0}

\* The server is at rest: the watcher is in its loop with no event waiting,
\* no handler is at work and every goroutine has returned.
ServerIdle ==
    /\ watcher.pc = "loop"
    /\ watcher.events = << >>
    /\ \A t \in Tasks : fgPc[t] \in {"absent", "exited"}
    /\ \A g \in Tasks : bgPc[g] \in {"none", "done", "dropped"}

\* C31: the watcher is registered before the existing files are read, so no
\* task file is skipped (once the server is at rest, a request answered
\* "queued" has a goroutine that went through to the end), and every task
\* file is processed exactly once (its script is started by one goroutine
\* at most).
C31_ProcessedExactlyOnce ==
    \A f \in Tasks :
        /\ Cardinality(Executions(f)) <= 1
        /\ (ServerIdle /\ fgExit[f] = 200) => \E g \in Tasks : taskFile[g] = f /\ bgPc[g] = "done"

\* No task file has its script started by two goroutines.
C31_ScriptStartedOncePerFile == \A f \in Tasks : Cardinality(Executions(f)) <= 1

====
